---- MODULE Spec2Model ----
(***************************************************************************)
(* Lobby and chat room system (Django + Channels): the durable lobby      *)
(* state (chat/models.py), the REST moderation views (chat/views.py) and  *)
(* the per-connection WebSocket consumer (chat/consumers.py) with its     *)
(* cache-backed presence set and rate limiter.                            *)
(***************************************************************************)
EXTENDS Integers, Sequences, FiniteSets, TLC

\* ------------------------------------------------------------------ bounds
NumUsers == 3
MaxCap == 2
NumConns == 2
NumLobbies == 2
MaxTime == 4
MaxSends == 5
MaxFrames == 3
MaxMods == 2
NumReqs == 2

\* ------------------------------------------------------- program constants
RateWindow == 2
RateLimit == 3
RateTTL == 10
PresenceTTL == 300
TheLobby == 1
MaxContent == 2000

Users == 1..NumUsers
Conns == 1..NumConns
Reqs == 1..NumReqs
Lobbies == 1..NumLobbies
Keys == Users \X Lobbies
Times == 0..MaxTime
Ages == 0..(RateWindow - 1)
None == "none"
Statuses == {"open", "in_game", "closed"}
Roles == {"member", "moderator", "owner"}

VARIABLES
    status,             \* Lobby.status
    max_participants,   \* Lobby.max_participants
    owner,              \* Lobby.owner
    memberships,        \* LobbyMembership rows of the lobby: user -> role or None
    bans,               \* LobbyBan rows of the lobby: set of users
    events,             \* LobbyEvent rows of the lobby, oldest first
    messages,           \* Message rows of the lobby, oldest first
    joinRet,            \* last (user, (allowed, reason)) returned by Lobby.can_join
    jreq,               \* per REST join request slot: [pc, user, resp, created]
    crashed,            \* history: per connection, the second its process died, -1 if none
    now,                \* timezone.now(), in seconds
    rateCache,          \* cache entries rate_limit:user:<u>:lobby:<l>: key -> [ts, exp]
    eternal,            \* reference: the same entries in a store that never expires a key
    presence,           \* cache entry lobby_presence:<lobby>: [users, exp]
    pc,                 \* per connection: where its consumer stands
    user,               \* per connection: self.user (scope['user']), 0 for AnonymousUser
    lobby_id,           \* per connection: self.lobby_id
    lobby,              \* per connection: self.lobby, the status the row had when loaded
    closeCode,          \* per connection: the code of its self.close(code=...), 0 if none
    chat,               \* per connection: locals of handle_chat_message (content, message)
    rl,                 \* per connection: locals of check_rate_limit (current_time, messages)
    ploc,               \* per connection: local current_users of add/remove_user_presence
    group,              \* channel layer group lobby_<id>: the connections (channels) in it
    inbox,              \* per connection: events the channel layer holds for its channel
    bcast,              \* history: the group and event of the latest group_send call
    out,                \* per connection: frames the latest step sent to its client
    seen,               \* history: per connection r and s, rank of the latest frame of s relayed by r
    recvd,              \* per connection: number of inbound client frames received
    last,               \* the check_rate_limit call that returned last in this second: [c, t, ok]
    accepted,           \* history: key -> age in seconds (below 2) -> number of calls accepted at that age
    raced,              \* history: key -> a cache.set overwrote a value its caller had not read
    nsends,             \* number of check_rate_limit calls begun
    nreqs,              \* number of REST requests served
    props               \* history: the moderation events sent to the group, oldest first

restVars == <<joinRet, jreq, crashed>>
dbVars == <<status, max_participants, owner, memberships, bans, events, messages>>
rateVars == <<now, rateCache, eternal, rl, last, accepted, raced, nsends>>
connVars == <<pc, user, lobby_id, lobby, closeCode, chat>>
presVars == <<presence, ploc>>
chanVars == <<group, inbox, bcast>>
budgetVars == <<recvd, nreqs, props>>
vars == <<status, max_participants, owner, memberships, bans, events, messages, joinRet, jreq,
          crashed,
          now, rateCache, eternal, presence, pc, user, lobby_id, lobby, closeCode, chat, rl, ploc,
          group, inbox, bcast, out, seen, recvd, last, accepted, raced, nsends, nreqs, props>>

\* The worker process (one event loop each) that serves connection c: two
\* workers take the connections in turn.
WorkerOf(c) == IF c % 2 = 1 THEN "w1" ELSE "w2"

\* No connection's process has died.
NoCrash == [c \in Conns |-> -1]

\* No join request has been received in any slot.
NoRequest == [pc |-> "idle", user |-> 0, resp |-> "", created |-> FALSE]
NoRequests == [r \in Reqs |-> NoRequest]

\* No can_join call has returned yet (user 0 is no user).
NoRet == [user |-> 0, res |-> [allowed |-> FALSE, reason |-> ""]]

\* ------------------------------------------------------- chat/models.py
\* Lobby.current_participants_count: self.memberships.count()
current_participants_count == Cardinality({u \in Users : memberships[u] # None})

is_full_gt == current_participants_count > max_participants

\* Lobby.is_full
is_full == current_participants_count >= max_participants

can_join_ban_first(st, u) ==
    IF st # "open" THEN [allowed |-> FALSE, reason |-> "Lobby is not open"]
    ELSE IF u \in bans THEN [allowed |-> FALSE, reason |-> "You are banned from this lobby"]
    ELSE IF is_full THEN [allowed |-> FALSE, reason |-> "Lobby is full"]
    ELSE IF memberships[u] # None THEN [allowed |-> FALSE, reason |-> "Already in lobby"]
    ELSE [allowed |-> TRUE, reason |-> "Can join"]

\* Lobby.can_join(user) evaluated on a lobby object whose status field is st
\* (the object's loaded field), counts and rows being queried at call time.
can_join(st, u) ==
    IF st # "open" THEN [allowed |-> FALSE, reason |-> "Lobby is not open"]
    ELSE IF is_full THEN [allowed |-> FALSE, reason |-> "Lobby is full"]
    ELSE IF u \in bans THEN [allowed |-> FALSE, reason |-> "You are banned from this lobby"]
    ELSE IF memberships[u] # None THEN [allowed |-> FALSE, reason |-> "Already in lobby"]
    ELSE [allowed |-> TRUE, reason |-> "Can join"]

\* ------------------------------------ chat/consumers.py: channel layer, frames
\* An event of the channel layer or a frame for a client. uid is the user_id,
\* sender id or target_id it carries; src and n (history) name the connection
\* whose inbound frame caused it and the rank of that frame among the frames
\* of that connection (0, 0 when no inbound frame caused it).
Event(type, uid, users, text, mid, src, n) ==
    [type |-> type, uid |-> uid, users |-> users, text |-> text, mid |-> mid,
     src |-> src, n |-> n]

\* The inbound frames received so far on connections 1..c
RECURSIVE TotalFrames(_)
TotalFrames(c) == IF c = 0 THEN 0 ELSE recvd[c] + TotalFrames(c - 1)

\* The REST requests served and moderation events sent so far
Mods == nreqs + Len(props)

\* No frame for any client
NoOut == [c \in Conns |-> <<>>]

\* self.send(text_data=...)
Send(c, frame) ==
    /\ out' = [d \in Conns |-> IF d = c THEN <<frame>> ELSE <<>>]
    /\ seen' = IF frame.src # 0 THEN [seen EXCEPT ![c][frame.src] = frame.n] ELSE seen

\* The step sends no frame.
Quiet ==
    /\ out' = NoOut
    /\ UNCHANGED seen

\* send_error(message)
ErrorFrame(message) == Event("error", 0, {}, message, 0, 0, 0)

NoBroadcast == [lobby |-> 0, type |-> "", uid |-> 0]

\* channel_layer.group_send(f'lobby_{l}', event): the event goes to the channel
\* of every consumer that is in the group of lobby id l
GroupSend(l, type, uid, text, mid, src, n) ==
    /\ inbox' = [d \in Conns |->
                    IF d \in group /\ lobby_id[d] = l
                    THEN Append(inbox[d], Event(type, uid, {}, text, mid, src, n))
                    ELSE inbox[d]]
    /\ bcast' = [lobby |-> l, type |-> type, uid |-> uid]

\* self.close(code=...): the server closes the socket and then delivers
\* websocket.disconnect, which runs disconnect()
Close(c, code) ==
    /\ closeCode' = [closeCode EXCEPT ![c] = code]
    /\ pc' = [pc EXCEPT ![c] = "closing"]

\* --------------------------------------------- chat/consumers.py: rate limit
\* A consumer between cache.get and cache.set of one synchronous stretch of
\* code: its worker's event loop runs nothing else until the stretch ends.
SyncStates == {"rl_set", "add_set", "rm_set"}

\* The event loop of c's worker is free to run a step of c.
LoopFree(c) ==
    \A d \in Conns \ {c} : WorkerOf(d) = WorkerOf(c) => pc[d] \notin SyncStates

NoCall == [c |-> 0, t |-> 0, ok |-> FALSE]
NoMessage == [content |-> "", id |-> 0, n |-> 0]

\* Inbound message texts: the text without its surrounding whitespace, the
\* length of that, and whether whitespace surrounds it.
Text(body, len, padded) == [body |-> body, len |-> len, padded |-> padded]
Contents == {Text("Hello", 5, FALSE), Text("Hello", 5, TRUE), Text("", 0, TRUE), Text("", 0, FALSE)}

\* len() of the text as the client sent it: a padded text carries one
\* whitespace character on each side
Length(m) == m.len + (IF m.padded THEN 2 ELSE 0)

\* Texts at the limits of the validation: only whitespace, MaxContent
\* characters with and without surrounding whitespace, one character more
SendContents ==
    {Text("Hello", 5, TRUE), Text("", 0, TRUE), Text("", 0, FALSE),
     Text("Long", MaxContent, FALSE), Text("Long", MaxContent, TRUE),
     Text("Longer", MaxContent + 1, FALSE)}

\* str.strip()
Strip(m) == Text(m.body, m.len, FALSE)
NoPresence == [users |-> {}, exp |-> 0]
NoPresences == [l \in Lobbies |-> NoPresence]
NoLocals == [t |-> 0, msgs |-> <<>>, kept |-> <<>>]

\* cache_key of check_rate_limit
RateKey(c) == <<user[c], lobby_id[c]>>

\* cache.get(cache_key, []): the stored list unless the entry has expired
CacheGetRate_early(k) ==
    IF now + RateTTL - 1 < rateCache[k].exp THEN rateCache[k].ts ELSE <<>>

CacheGetRate(k) == IF now < rateCache[k].exp THEN rateCache[k].ts ELSE <<>>

IsFresh_ge(t, cur) == t >= cur - RateWindow

\* msg_time > cutoff_time, cutoff_time = current_time - timedelta(seconds=2)
IsFresh(t, cur) == t > cur - RateWindow

\* [msg_time for msg_time in messages if msg_time > cutoff_time]
RateFilter(msgs, cur) == SelectSeq(msgs, LAMBDA t : IsFresh(t, cur))

RateExceeded_gt(msgs) == Len(msgs) > RateLimit

\* len(messages) >= 3
RateExceeded(msgs) == Len(msgs) >= RateLimit

\* check_rate_limit up to cache.get: current_time and the stored list
CheckRateLimitGet(c) ==
    /\ nsends < MaxSends
    /\ rl' = [rl EXCEPT ![c] = [t |-> now, msgs |-> CacheGetRate(RateKey(c)),
                                 kept |-> eternal[RateKey(c)]]]
    /\ nsends' = nsends + 1
    /\ UNCHANGED <<now, rateCache, eternal, last, accepted, raced>>

CheckRateLimitSet_trim(c) ==
    LET k == RateKey(c)
        cur == rl[c].t
        msgs == RateFilter(rl[c].msgs, cur)
    IN  /\ IF RateExceeded(msgs)
           THEN /\ rateCache' = [rateCache EXCEPT
                        ![k] = [ts |-> msgs, exp |-> now + RateTTL]]
                /\ last' = [c |-> c, t |-> cur, ok |-> FALSE]
                /\ UNCHANGED <<accepted, raced>>
           ELSE /\ rateCache' = [rateCache EXCEPT
                        ![k] = [ts |-> Append(msgs, cur), exp |-> now + RateTTL]]
                /\ last' = [c |-> c, t |-> cur, ok |-> TRUE]
                /\ accepted' = [accepted EXCEPT ![k][now - cur] = @ + 1]
                /\ raced' = [raced EXCEPT ![k] = @ \/ CacheGetRate(k) # rl[c].msgs]
        /\ eternal' = IF RateExceeded(RateFilter(rl[c].kept, cur))
                       THEN eternal
                       ELSE [eternal EXCEPT ![k] = Append(RateFilter(rl[c].kept, cur), cur)]
        /\ rl' = [rl EXCEPT ![c] = NoLocals]
        /\ UNCHANGED <<now, nsends>>

\* check_rate_limit from the filter on: its answer is last'[c].ok
CheckRateLimitSet(c) ==
    LET k == RateKey(c)
        cur == rl[c].t
        msgs == RateFilter(rl[c].msgs, cur)
    IN  /\ IF RateExceeded(msgs)
           THEN /\ last' = [c |-> c, t |-> cur, ok |-> FALSE]
                /\ UNCHANGED <<rateCache, accepted, raced>>
           ELSE /\ rateCache' = [rateCache EXCEPT
                        ![k] = [ts |-> Append(msgs, cur), exp |-> now + RateTTL]]
                /\ last' = [c |-> c, t |-> cur, ok |-> TRUE]
                /\ accepted' = [accepted EXCEPT ![k][now - cur] = @ + 1]
                /\ raced' = [raced EXCEPT ![k] = @ \/ CacheGetRate(k) # rl[c].msgs]
        /\ eternal' = IF RateExceeded(RateFilter(rl[c].kept, cur))
                       THEN eternal
                       ELSE [eternal EXCEPT ![k] = Append(RateFilter(rl[c].kept, cur), cur)]
        /\ rl' = [rl EXCEPT ![c] = NoLocals]
        /\ UNCHANGED <<now, nsends>>

\* One second passes (never between the clock reading and the cache.set of one
\* check_rate_limit call, which are a few statements apart).
Tick ==
    /\ now < MaxTime
    /\ \A c \in Conns : pc[c] \notin SyncStates
    /\ now' = now + 1
    /\ accepted' = [k \in Keys |-> [a \in Ages |-> IF a = 0 THEN 0 ELSE accepted[k][a - 1]]]
    /\ last' = NoCall
    /\ Quiet
    /\ UNCHANGED <<dbVars, restVars, connVars, presVars, chanVars, budgetVars,
                   rateCache, eternal, rl, raced, nsends>>


InitRateIdle ==
    /\ now = 0
    /\ rateCache = [k \in Keys |-> [ts |-> <<>>, exp |-> 0]]
    /\ eternal = [k \in Keys |-> <<>>]
    /\ rl = [c \in Conns |-> NoLocals]
    /\ last = NoCall
    /\ accepted = [k \in Keys |-> [a \in Ages |-> 0]]
    /\ raced = [k \in Keys |-> FALSE]
    /\ nsends = 0

\* No connection opened, nothing in the cache or the channel layer.
InitConnsIdle ==
    /\ pc = [c \in Conns |-> "new"]
    /\ user = [c \in Conns |-> 0]
    /\ lobby_id = [c \in Conns |-> 0]
    /\ lobby = [c \in Conns |-> None]
    /\ closeCode = [c \in Conns |-> 0]
    /\ chat = [c \in Conns |-> NoMessage]
    /\ ploc = [c \in Conns |-> {}]
    /\ presence = NoPresences
    /\ group = {}
    /\ inbox = [c \in Conns |-> <<>>]
    /\ bcast = NoBroadcast
    /\ out = NoOut
    /\ seen = [c \in Conns |-> [d \in Conns |-> 0]]
    /\ recvd = [c \in Conns |-> 0]
    /\ nreqs = 0
    /\ props = <<>>

\* No LobbyEvent and no Message row.
InitLogs ==
    /\ events = <<>>
    /\ messages = <<>>

\* ------------------------------------------ chat/consumers.py: presence set
\* cache.get(cache_key, set()) for cache_key = f'lobby_presence:{l}'
CacheGetPresence(l) == IF now < presence[l].exp THEN presence[l].users ELSE {}

\* cache.set(cache_key, current_users, timeout=300)
CacheSetPresence(l, users) ==
    presence' = [presence EXCEPT ![l] = [users |-> users, exp |-> now + PresenceTTL]]

\* add_user_presence up to cache.get
AddPresenceGet(c) ==
    /\ pc[c] = "add_get"
    /\ LoopFree(c)
    /\ ploc' = [ploc EXCEPT ![c] = CacheGetPresence(lobby_id[c])]
    /\ pc' = [pc EXCEPT ![c] = "add_set"]
    /\ Quiet
    /\ UNCHANGED <<dbVars, restVars, rateVars, presence, user, lobby_id, lobby, closeCode,
                   chat, chanVars, budgetVars>>

\* add_user_presence from current_users.add on, then connect's group_send of
\* presence_join (lines 58-67)
AddPresenceSet(c) ==
    /\ pc[c] = "add_set"
    /\ CacheSetPresence(lobby_id[c], ploc[c] \cup {user[c]})
    /\ ploc' = [ploc EXCEPT ![c] = {}]
    /\ GroupSend(lobby_id[c], "presence_join", user[c], "", 0, 0, 0)
    /\ pc' = [pc EXCEPT ![c] = "snapshot"]
    /\ Quiet
    /\ UNCHANGED <<dbVars, restVars, rateVars, user, lobby_id, lobby, closeCode, chat,
                   group, budgetVars>>

\* get_online_users and connect's send of presence_list (lines 69-74)
GetOnlineUsers(c) ==
    /\ pc[c] = "snapshot"
    /\ LoopFree(c)
    /\ Send(c, Event("presence_list", 0, CacheGetPresence(lobby_id[c]) \cap Users, "", 0, 0, 0))
    /\ pc' = [pc EXCEPT ![c] = "active"]
    /\ UNCHANGED <<dbVars, restVars, rateVars, presVars, user, lobby_id, lobby, closeCode,
                   chat, chanVars, budgetVars>>

\* remove_user_presence up to cache.get (disconnect, lines 78-80)
RemovePresenceGet(c) ==
    /\ pc[c] = "closing"
    /\ LoopFree(c)
    /\ ploc' = [ploc EXCEPT ![c] = CacheGetPresence(lobby_id[c])]
    /\ pc' = [pc EXCEPT ![c] = "rm_set"]
    /\ Quiet
    /\ UNCHANGED <<dbVars, restVars, rateVars, presence, user, lobby_id, lobby, closeCode,
                   chat, chanVars, budgetVars>>

RemovePresenceSet_keep(c) ==
    LET current_users == ploc[c] \ {user[c]}
    IN  /\ pc[c] = "rm_set"
        /\ CacheSetPresence(lobby_id[c], current_users)
        /\ ploc' = [ploc EXCEPT ![c] = {}]
        /\ IF user[c] # 0
           THEN GroupSend(lobby_id[c], "presence_leave", user[c], "", 0, 0, 0)
           ELSE UNCHANGED <<inbox, bcast>>
        /\ pc' = [pc EXCEPT ![c] = "discard"]
        /\ Quiet
        /\ UNCHANGED <<dbVars, restVars, rateVars, user, lobby_id, lobby, closeCode, chat,
                       group, budgetVars>>

\* remove_user_presence from current_users.discard on, then disconnect's
\* group_send of presence_leave for an authenticated user (lines 82-91)
RemovePresenceSet(c) ==
    LET current_users == ploc[c] \ {user[c]}
    IN  /\ pc[c] = "rm_set"
        /\ IF current_users # {}
           THEN CacheSetPresence(lobby_id[c], current_users)
           ELSE presence' = [presence EXCEPT ![lobby_id[c]] = NoPresence]
        /\ ploc' = [ploc EXCEPT ![c] = {}]
        /\ IF user[c] # 0
           THEN GroupSend(lobby_id[c], "presence_leave", user[c], "", 0, 0, 0)
           ELSE UNCHANGED <<inbox, bcast>>
        /\ pc' = [pc EXCEPT ![c] = "discard"]
        /\ Quiet
        /\ UNCHANGED <<dbVars, restVars, rateVars, user, lobby_id, lobby, closeCode, chat,
                       group, budgetVars>>

GroupDiscard_keep(c) ==
    /\ pc[c] = "discard"
    /\ LoopFree(c)
    /\ inbox' = [inbox EXCEPT ![c] = <<>>]
    /\ pc' = [pc EXCEPT ![c] = "closed"]
    /\ Quiet
    /\ UNCHANGED <<dbVars, restVars, rateVars, presVars, user, lobby_id, lobby, closeCode,
                   chat, group, bcast, budgetVars>>

\* disconnect's group_discard (lines 93-97); the consumer then stops and the
\* events left on its channel are never handled
GroupDiscard(c) ==
    /\ pc[c] = "discard"
    /\ LoopFree(c)
    /\ group' = group \ {c}
    /\ inbox' = [inbox EXCEPT ![c] = <<>>]
    /\ UNCHANGED bcast
    /\ pc' = [pc EXCEPT ![c] = "closed"]
    /\ Quiet
    /\ UNCHANGED <<dbVars, restVars, rateVars, presVars, user, lobby_id, lobby, closeCode,
                   chat, budgetVars>>

\* ---------------------------------------------- chat/consumers.py: connect
\* connect up to get_lobby (lines 24-37): u is scope['user'] (0: anonymous),
\* l the lobby_id of the URL. Connections are numbered in the order in which
\* they are opened.
Connect(c, u, l) ==
    /\ pc[c] = "new"
    /\ \A d \in Conns : d < c => pc[d] # "new"
    /\ LoopFree(c)
    /\ user' = [user EXCEPT ![c] = u]
    /\ lobby_id' = [lobby_id EXCEPT ![c] = l]
    /\ IF u = 0
       THEN Close(c, 4001) /\ UNCHANGED lobby
       ELSE IF l # TheLobby
       THEN Close(c, 4004) /\ UNCHANGED lobby
       ELSE /\ lobby' = [lobby EXCEPT ![c] = status]
            /\ pc' = [pc EXCEPT ![c] = "can_join"]
            /\ UNCHANGED closeCode
    /\ Quiet
    /\ UNCHANGED <<dbVars, restVars, rateVars, presVars, chat, chanVars, budgetVars>>

CanUserJoin_group_first(c) ==
    LET res == can_join(lobby[c], user[c])
    IN  /\ pc[c] = "can_join"
        /\ LoopFree(c)
        /\ group' = group \cup {c}
        /\ IF res.allowed
           THEN /\ pc' = [pc EXCEPT ![c] = "group_add"]
                /\ Quiet
                /\ UNCHANGED closeCode
           ELSE /\ Send(c, ErrorFrame(res.reason))
                /\ Close(c, 4003)
        /\ UNCHANGED <<dbVars, restVars, rateVars, presVars, user, lobby_id, lobby, chat,
                       inbox, bcast, budgetVars>>

\* connect's can_user_join and the denial (lines 39-44)
CanUserJoin(c) ==
    LET res == can_join(lobby[c], user[c])
    IN  /\ pc[c] = "can_join"
        /\ LoopFree(c)
        /\ IF res.allowed
           THEN /\ pc' = [pc EXCEPT ![c] = "group_add"]
                /\ Quiet
                /\ UNCHANGED closeCode
           ELSE /\ Send(c, ErrorFrame(res.reason))
                /\ Close(c, 4003)
        /\ UNCHANGED <<dbVars, restVars, rateVars, presVars, user, lobby_id, lobby, chat,
                       chanVars, budgetVars>>

\* connect's group_add and accept (lines 46-53)
GroupAdd(c) ==
    /\ pc[c] = "group_add"
    /\ LoopFree(c)
    /\ group' = group \cup {c}
    /\ pc' = [pc EXCEPT ![c] = "add_get"]
    /\ Quiet
    /\ UNCHANGED <<dbVars, restVars, rateVars, presVars, user, lobby_id, lobby, closeCode,
                   chat, inbox, bcast, budgetVars>>

\* The client closes the socket (or the transport fails): the server delivers
\* websocket.disconnect to the idle consumer.
ClientClose(c) ==
    /\ pc[c] = "active"
    /\ LoopFree(c)
    /\ pc' = [pc EXCEPT ![c] = "closing"]
    /\ Quiet
    /\ UNCHANGED <<dbVars, restVars, rateVars, presVars, user, lobby_id, lobby, closeCode,
                   chat, chanVars, budgetVars>>

Dispatch_closing(c, type) ==
    /\ pc[c] \in {"active", "closing"}
    /\ LoopFree(c)
    /\ inbox[c] # <<>>
    /\ Head(inbox[c]).type = type
    /\ inbox' = [inbox EXCEPT ![c] = Tail(@)]
    /\ UNCHANGED bcast

\* ------------------------------- chat/consumers.py: handlers of group events
\* The consumer is idle and the next event of its channel has this type.
Dispatch(c, type) ==
    /\ pc[c] = "active"
    /\ LoopFree(c)
    /\ inbox[c] # <<>>
    /\ Head(inbox[c]).type = type
    /\ inbox' = [inbox EXCEPT ![c] = Tail(@)]
    /\ UNCHANGED bcast

\* chat_message, presence_join, presence_leave, system_status: pass it on
Relay(c, type) ==
    /\ Dispatch(c, type)
    /\ Send(c, Head(inbox[c]))
    /\ UNCHANGED <<dbVars, restVars, rateVars, presVars, connVars, group, budgetVars>>

chat_message(c) == Relay(c, "chat_message")
presence_join(c) == Relay(c, "presence_join")
presence_leave(c) == Relay(c, "presence_leave")

IsOwnEvent_never(c, ev) == FALSE

\* event['user_id'] == self.user.id, event['target_id'] == self.user.id
IsOwnEvent(c, ev) == ev.uid = user[c]

RelayTyping_echo(c, type) ==
    /\ Dispatch(c, type)
    /\ Send(c, Head(inbox[c]))
    /\ UNCHANGED <<dbVars, restVars, rateVars, presVars, connVars, group, budgetVars>>

\* typing_start, typing_stop: not sent back to the sender
RelayTyping(c, type) ==
    /\ Dispatch(c, type)
    /\ IF ~IsOwnEvent(c, Head(inbox[c]))
       THEN Send(c, Head(inbox[c]))
       ELSE Quiet
    /\ UNCHANGED <<dbVars, restVars, rateVars, presVars, connVars, group, budgetVars>>

typing_start(c) == RelayTyping(c, "typing_start")
typing_stop(c) == RelayTyping(c, "typing_stop")

\* moderation_kick, moderation_ban: the target is told and closed with 4003,
\* the others are told who was removed
Moderation(c, type, told) ==
    LET ev == Head(inbox[c])
    IN  /\ Dispatch(c, type)
        /\ IF IsOwnEvent(c, ev)
           THEN /\ Send(c, Event(type, 0, {}, told, 0, ev.src, ev.n))
                /\ Close(c, 4003)
           ELSE /\ Send(c, Event(type, ev.uid, {}, "", 0, ev.src, ev.n))
                /\ UNCHANGED <<pc, closeCode>>
        /\ UNCHANGED <<dbVars, restVars, rateVars, presVars, user, lobby_id, lobby, chat,
                       group, budgetVars>>

moderation_kick(c) == Moderation(c, "moderation_kick", "You have been kicked from the lobby")
moderation_ban(c) == Moderation(c, "moderation_ban", "You have been banned from the lobby")

\* ------------------------------- chat/consumers.py: handlers of client frames
Receive_concurrent(c) ==
    /\ pc[c] \in {"active", "is_member", "save", "broadcast"}
    /\ LoopFree(c)
    /\ TotalFrames(NumConns) < MaxFrames
    /\ recvd' = [recvd EXCEPT ![c] = @ + 1]

\* receive: a frame arrives from the client; the consumer takes it when it is
\* idle, since receive awaits the handler of the frame before it
Receive(c) ==
    /\ pc[c] = "active"
    /\ LoopFree(c)
    /\ TotalFrames(NumConns) < MaxFrames
    /\ recvd' = [recvd EXCEPT ![c] = @ + 1]

\* A text frame as receive sees it: whether json.loads accepts it, whether
\* the value it yields is an object (a dict), and the value of its 'type'
\* (None when the key is missing).
Frame(json, object, type) == [json |-> json, object |-> object, type |-> type]

\* The message types receive knows
MessageTypes == {"chat_message", "typing_start", "typing_stop"}

\* Frames that reach none of the three handlers: not JSON ('hello'), JSON
\* that is no object ('[1]'), an object without 'type' or with another type
BadFrames == {Frame(FALSE, FALSE, None), Frame(TRUE, FALSE, None),
              Frame(TRUE, TRUE, None), Frame(TRUE, TRUE, "ping")}

\* str(e) of the AttributeError that data.get raises on a list
NoGet == "Error processing message: 'list' object has no attribute 'get'"

receive_close(c, f) ==
    /\ f.type \notin MessageTypes \/ ~f.json \/ ~f.object
    /\ Receive(c)
    /\ IF ~f.json
       THEN /\ Send(c, ErrorFrame("Invalid JSON"))
            /\ Close(c, 4003)
       ELSE /\ IF ~f.object
               THEN Send(c, ErrorFrame(NoGet))
               ELSE Send(c, ErrorFrame("Unknown message type"))
            /\ UNCHANGED <<pc, closeCode>>
    /\ UNCHANGED <<dbVars, restVars, rateVars, presVars, user, lobby_id, lobby, chat,
                   chanVars, nreqs, props>>

\* receive for a frame that none of its three handlers takes (lines 99-117):
\* json.loads raises JSONDecodeError, or data.get raises AttributeError, or
\* the type falls through to the else branch
receive(c, f) ==
    /\ f.type \notin MessageTypes \/ ~f.json \/ ~f.object
    /\ Receive(c)
    /\ IF ~f.json
       THEN Send(c, ErrorFrame("Invalid JSON"))
       ELSE IF ~f.object
       THEN Send(c, ErrorFrame(NoGet))
       ELSE Send(c, ErrorFrame("Unknown message type"))
    /\ UNCHANGED <<dbVars, restVars, rateVars, presVars, connVars, chanVars, nreqs, props>>

handle_typing_start(c) ==
    /\ Receive(c)
    /\ GroupSend(lobby_id[c], "typing_start", user[c], "", 0, c, recvd[c] + 1)
    /\ Quiet
    /\ UNCHANGED <<dbVars, restVars, rateVars, presVars, connVars, group, nreqs, props>>

handle_typing_stop(c) ==
    /\ Receive(c)
    /\ GroupSend(lobby_id[c], "typing_stop", user[c], "", 0, c, recvd[c] + 1)
    /\ Quiet
    /\ UNCHANGED <<dbVars, restVars, rateVars, presVars, connVars, group, nreqs, props>>

handle_chat_message_raw(c, m) ==
    LET content == Strip(m)
    IN  /\ Receive(c)
        /\ IF content.len = 0
           THEN /\ Send(c, ErrorFrame("Message cannot be empty"))
                /\ UNCHANGED <<rateVars, pc, chat>>
           ELSE IF Length(m) > MaxContent
           THEN /\ Send(c, ErrorFrame("Message too long (max 2000 characters)"))
                /\ UNCHANGED <<rateVars, pc, chat>>
           ELSE /\ CheckRateLimitGet(c)
                /\ chat' = [chat EXCEPT ![c] = [content |-> content.body, id |-> 0,
                                                 n |-> recvd[c] + 1]]
                /\ pc' = [pc EXCEPT ![c] = "rl_set"]
                /\ Quiet
        /\ UNCHANGED <<dbVars, restVars, presVars, user, lobby_id, lobby, closeCode,
                       chanVars, nreqs, props>>

\* handle_chat_message up to check_rate_limit's cache.get (lines 119-132, 323-329)
handle_chat_message(c, m) ==
    LET content == Strip(m)
    IN  /\ Receive(c)
        /\ IF content.len = 0
           THEN /\ Send(c, ErrorFrame("Message cannot be empty"))
                /\ UNCHANGED <<rateVars, pc, chat>>
           ELSE IF content.len > MaxContent
           THEN /\ Send(c, ErrorFrame("Message too long (max 2000 characters)"))
                /\ UNCHANGED <<rateVars, pc, chat>>
           ELSE /\ CheckRateLimitGet(c)
                /\ chat' = [chat EXCEPT ![c] = [content |-> content.body, id |-> 0,
                                                 n |-> recvd[c] + 1]]
                /\ pc' = [pc EXCEPT ![c] = "rl_set"]
                /\ Quiet
        /\ UNCHANGED <<dbVars, restVars, presVars, user, lobby_id, lobby, closeCode,
                       chanVars, nreqs, props>>

ChatRateLimit_close(c) ==
    /\ pc[c] = "rl_set"
    /\ CheckRateLimitSet(c)
    /\ IF RateExceeded(RateFilter(rl[c].msgs, rl[c].t))
       THEN /\ Send(c, ErrorFrame("Rate limit exceeded. Please slow down."))
            /\ chat' = [chat EXCEPT ![c] = NoMessage]
            /\ Close(c, 4003)
       ELSE /\ pc' = [pc EXCEPT ![c] = "is_member"]
            /\ Quiet
            /\ UNCHANGED <<chat, closeCode>>
    /\ UNCHANGED <<dbVars, restVars, presVars, user, lobby_id, lobby,
                   chanVars, budgetVars>>

ChatRateLimit_member_first(c) ==
    /\ pc[c] = "rl_set"
    /\ CheckRateLimitSet(c)
    /\ IF memberships[user[c]] = None
       THEN /\ Send(c, ErrorFrame("You are not a member of this lobby"))
            /\ chat' = [chat EXCEPT ![c] = NoMessage]
            /\ pc' = [pc EXCEPT ![c] = "active"]
       ELSE IF RateExceeded(RateFilter(rl[c].msgs, rl[c].t))
       THEN /\ Send(c, ErrorFrame("Rate limit exceeded. Please slow down."))
            /\ chat' = [chat EXCEPT ![c] = NoMessage]
            /\ pc' = [pc EXCEPT ![c] = "active"]
       ELSE /\ pc' = [pc EXCEPT ![c] = "is_member"]
            /\ Quiet
            /\ UNCHANGED chat
    /\ UNCHANGED <<dbVars, restVars, presVars, user, lobby_id, lobby, closeCode,
                   chanVars, budgetVars>>

\* check_rate_limit from the filter on, and the rejection (lines 132-134, 331-343)
ChatRateLimit(c) ==
    /\ pc[c] = "rl_set"
    /\ CheckRateLimitSet(c)
    /\ IF RateExceeded(RateFilter(rl[c].msgs, rl[c].t))
       THEN /\ Send(c, ErrorFrame("Rate limit exceeded. Please slow down."))
            /\ chat' = [chat EXCEPT ![c] = NoMessage]
            /\ pc' = [pc EXCEPT ![c] = "active"]
       ELSE /\ pc' = [pc EXCEPT ![c] = "is_member"]
            /\ Quiet
            /\ UNCHANGED chat
    /\ UNCHANGED <<dbVars, restVars, presVars, user, lobby_id, lobby, closeCode,
                   chanVars, budgetVars>>

\* is_user_member
is_user_member(c) == memberships[user[c]] # None

ChatIsMember_open(c) ==
    /\ pc[c] = "is_member"
    /\ LoopFree(c)
    /\ IF is_user_member(c)
       THEN /\ pc' = [pc EXCEPT ![c] = "save"]
            /\ Quiet
            /\ UNCHANGED <<closeCode, chat>>
       ELSE /\ Send(c, ErrorFrame("You are not a member of this lobby"))
            /\ pc' = [pc EXCEPT ![c] = "active"]
            /\ chat' = [chat EXCEPT ![c] = NoMessage]
            /\ UNCHANGED closeCode
    /\ UNCHANGED <<dbVars, restVars, rateVars, presVars, user, lobby_id, lobby,
                   chanVars, budgetVars>>

\* the membership re-check (lines 136-141)
ChatIsMember(c) ==
    /\ pc[c] = "is_member"
    /\ LoopFree(c)
    /\ IF is_user_member(c)
       THEN /\ pc' = [pc EXCEPT ![c] = "save"]
            /\ Quiet
            /\ UNCHANGED <<closeCode, chat>>
       ELSE /\ Send(c, ErrorFrame("You are not a member of this lobby"))
            /\ Close(c, 4003)
            /\ chat' = [chat EXCEPT ![c] = NoMessage]
    /\ UNCHANGED <<dbVars, restVars, rateVars, presVars, user, lobby_id, lobby,
                   chanVars, budgetVars>>

SaveMessage_retry(c, stored) ==
    /\ pc[c] = "save"
    /\ LoopFree(c)
    /\ IF stored
       THEN /\ messages' = Append(messages, [id |-> Len(messages) + 1, sender |-> user[c],
                                              content |-> chat[c].content])
            /\ chat' = [chat EXCEPT ![c].id = Len(messages) + 1]
            /\ pc' = [pc EXCEPT ![c] = "broadcast"]
            /\ Quiet
       ELSE /\ Send(c, ErrorFrame("Failed to save message"))
            /\ UNCHANGED <<messages, chat, pc>>
    /\ UNCHANGED <<status, max_participants, owner, memberships, bans, events, restVars,
                   rateVars, presVars, user, lobby_id, lobby, closeCode,
                   chanVars, budgetVars>>

SaveMessage_unsaved(c, stored) ==
    /\ pc[c] = "save"
    /\ LoopFree(c)
    /\ IF stored
       THEN /\ messages' = Append(messages, [id |-> Len(messages) + 1, sender |-> user[c],
                                              content |-> chat[c].content])
            /\ chat' = [chat EXCEPT ![c].id = Len(messages) + 1]
       ELSE UNCHANGED <<messages, chat>>
    /\ pc' = [pc EXCEPT ![c] = "broadcast"]
    /\ Quiet
    /\ UNCHANGED <<status, max_participants, owner, memberships, bans, events, restVars,
                   rateVars, presVars, user, lobby_id, lobby, closeCode,
                   chanVars, budgetVars>>

\* save_message (lines 143-147, 308-319): stored says whether the store took the row
SaveMessage(c, stored) ==
    /\ pc[c] = "save"
    /\ LoopFree(c)
    /\ IF stored
       THEN /\ messages' = Append(messages, [id |-> Len(messages) + 1, sender |-> user[c],
                                              content |-> chat[c].content])
            /\ chat' = [chat EXCEPT ![c].id = Len(messages) + 1]
            /\ pc' = [pc EXCEPT ![c] = "broadcast"]
            /\ Quiet
       ELSE /\ Send(c, ErrorFrame("Failed to save message"))
            /\ chat' = [chat EXCEPT ![c] = NoMessage]
            /\ pc' = [pc EXCEPT ![c] = "active"]
            /\ UNCHANGED messages
    /\ UNCHANGED <<status, max_participants, owner, memberships, bans, events, restVars,
                   rateVars, presVars, user, lobby_id, lobby, closeCode,
                   chanVars, budgetVars>>

\* handle_chat_message's group_send (lines 149-165)
ChatBroadcast(c) ==
    /\ pc[c] = "broadcast"
    /\ LoopFree(c)
    /\ GroupSend(lobby_id[c], "chat_message", user[c], chat[c].content, chat[c].id, c, chat[c].n)
    /\ chat' = [chat EXCEPT ![c] = NoMessage]
    /\ pc' = [pc EXCEPT ![c] = "active"]
    /\ Quiet
    /\ UNCHANGED <<dbVars, restVars, rateVars, presVars, user, lobby_id, lobby, closeCode,
                   group, budgetVars>>

\* ------------------------------------------------------ chat/permissions.py
IsAuthenticated(a) == a # 0

\* The users whose is_premium is set (a read-only field of the profile API):
\* those with an odd id
PremiumUsers == {u \in Users : u % 2 = 1}

IsPremium_any(a) == a # 0

\* IsPremium.has_permission
IsPremium(a) == a # 0 /\ a \in PremiumUsers

\* IsLobbyOwner.has_object_permission
IsLobbyOwner(a) == a # 0 /\ owner = a

\* IsOwnerOrModerator.has_object_permission
IsOwnerOrModerator(a) ==
    /\ a # 0
    /\ \/ owner = a
       \/ memberships[a] \in {"moderator", "owner"}

\* ------------------------------------------------------------ chat/views.py
\* LobbyViewSet.get_permissions, which every permission check of the viewset
\* goes through (check_permissions and check_object_permissions call it): for
\* the actions other than create, update, partial_update and destroy it
\* returns IsAuthenticated alone, whatever permission_classes the action
\* declares.
get_permissions(action, a) ==
    IF action = "create"
    THEN IsAuthenticated(a) /\ IsPremium(a)
    ELSE IF action \in {"update", "partial_update", "destroy"}
    THEN IsAuthenticated(a) /\ IsLobbyOwner(a)
    ELSE IsAuthenticated(a)

\* A LobbyEvent row
LobbyEvent(type, actor, target, text) ==
    [event_type |-> type, actor |-> actor, target |-> target, description |-> text]

\* A REST request is served.
Request ==
    /\ Mods < MaxMods
    /\ nreqs' = nreqs + 1

\* LobbyViewSet.join by user u
join(u) ==
    /\ Request
    /\ get_permissions("join", u)
    /\ IF can_join(status, u).allowed /\ memberships[u] = None
       THEN /\ memberships' = [memberships EXCEPT ![u] = "member"]
            /\ events' = Append(events, LobbyEvent("status_change", u, 0, "joined the lobby"))
       ELSE UNCHANGED <<memberships, events>>
    /\ Quiet
    /\ UNCHANGED <<status, max_participants, owner, bans, messages, restVars, rateVars,
                   presVars, connVars, chanVars, recvd, props>>

JoinCanJoin_log(r, u) ==
    LET res == can_join(status, u)
    IN  /\ jreq[r].pc = "idle"
        /\ jreq' = [jreq EXCEPT ![r] =
                      IF res.allowed
                      THEN [pc |-> "create", user |-> u, resp |-> "", created |-> FALSE]
                      ELSE [pc |-> "done", user |-> u, resp |-> res.reason, created |-> FALSE]]
        /\ events' = IF res.allowed THEN events
                     ELSE Append(events, [event_type |-> "status_change", actor |-> u,
                                          target |-> 0, description |-> res.reason])
        /\ Quiet
        /\ UNCHANGED <<status, max_participants, owner, memberships, bans, messages,
                       joinRet, crashed, rateVars, presVars, connVars, chanVars, budgetVars>>

\* The steps of LobbyViewSet.join that concurrent requests interleave, one
\* request per slot r. First get_object and lobby.can_join (lines 124-132):
\* a denial is answered with its reason.
JoinCanJoin(r, u) ==
    LET res == can_join(status, u)
    IN  /\ jreq[r].pc = "idle"
        /\ get_permissions("join", u)
        /\ jreq' = [jreq EXCEPT ![r] =
                      IF res.allowed
                      THEN [pc |-> "create", user |-> u, resp |-> "", created |-> FALSE]
                      ELSE [pc |-> "done", user |-> u, resp |-> res.reason, created |-> FALSE]]
        /\ Quiet
        /\ UNCHANGED <<dbVars, joinRet, crashed, rateVars, presVars, connVars, chanVars, budgetVars>>

GetOrCreate_no_unique(r) ==
    /\ jreq[r].pc = "create"
    /\ memberships' = [memberships EXCEPT ![jreq[r].user] = "member"]
    /\ jreq' = [jreq EXCEPT ![r].created = TRUE, ![r].pc = "respond"]
    /\ Quiet
    /\ UNCHANGED <<status, max_participants, owner, bans, events, messages, joinRet, crashed,
                   rateVars, presVars, connVars, chanVars, budgetVars>>

\* LobbyMembership.objects.get_or_create (lines 134-139): the row is inserted
\* unless one exists for (user, lobby); unique_together makes the store refuse
\* a second row, and get_or_create then returns the existing one.
GetOrCreate(r) ==
    /\ jreq[r].pc = "create"
    /\ IF memberships[jreq[r].user] = None
       THEN /\ memberships' = [memberships EXCEPT ![jreq[r].user] = "member"]
            /\ jreq' = [jreq EXCEPT ![r].created = TRUE, ![r].pc = "respond"]
       ELSE /\ jreq' = [jreq EXCEPT ![r].pc = "respond"]
            /\ UNCHANGED memberships
    /\ Quiet
    /\ UNCHANGED <<status, max_participants, owner, bans, events, messages, joinRet, crashed,
                   rateVars, presVars, connVars, chanVars, budgetVars>>

\* The event row and the response (lines 141-154)
JoinRespond(r) ==
    /\ jreq[r].pc = "respond"
    /\ IF jreq[r].created
       THEN /\ events' = Append(events, LobbyEvent("status_change", jreq[r].user, 0,
                                                    "joined the lobby"))
            /\ jreq' = [jreq EXCEPT ![r].resp = "Joined lobby successfully", ![r].pc = "done"]
       ELSE /\ jreq' = [jreq EXCEPT ![r].resp = "Already in lobby", ![r].pc = "done"]
            /\ UNCHANGED events
    /\ Quiet
    /\ UNCHANGED <<status, max_participants, owner, memberships, bans, messages, joinRet, crashed,
                   rateVars, presVars, connVars, chanVars, budgetVars>>

kick_and_ban(a, t) ==
    /\ Request
    /\ get_permissions("kick", a)
    /\ IF memberships[t] # None /\ memberships[t] # "owner"
       THEN /\ memberships' = [memberships EXCEPT ![t] = None]
            /\ bans' = bans \cup {t}
            /\ events' = Append(events, LobbyEvent("kick", a, t, "kicked from lobby"))
       ELSE UNCHANGED <<memberships, bans, events>>
    /\ Quiet
    /\ UNCHANGED <<status, max_participants, owner, messages, restVars, rateVars,
                   presVars, connVars, chanVars, recvd, props>>

\* The response of LobbyViewSet.kick to a request that names user t
\* (lines 241-275)
KickResponse(t) ==
    IF memberships[t] = None THEN [status |-> 400, text |-> "User not in lobby"]
    ELSE IF memberships[t] = "owner" THEN [status |-> 400, text |-> "Cannot kick lobby owner"]
    ELSE [status |-> 200, text |-> "kicked successfully"]

\* LobbyViewSet.kick of user t by user a
kick(a, t) ==
    /\ Request
    /\ get_permissions("kick", a)
    /\ IF memberships[t] # None /\ memberships[t] # "owner"
       THEN /\ memberships' = [memberships EXCEPT ![t] = None]
            /\ events' = Append(events, LobbyEvent("kick", a, t, "kicked from lobby"))
       ELSE UNCHANGED <<memberships, events>>
    /\ Quiet
    /\ UNCHANGED <<status, max_participants, owner, bans, messages, restVars, rateVars,
                   presVars, connVars, chanVars, recvd, props>>

ban_always_logs(a, t) ==
    /\ Request
    /\ get_permissions("ban", a)
    /\ IF owner = t
       THEN UNCHANGED <<memberships, bans, events>>
       ELSE /\ memberships' = [memberships EXCEPT ![t] = None]
            /\ bans' = bans \cup {t}
            /\ events' = Append(events, LobbyEvent("ban", a, t, "banned from lobby"))
    /\ Quiet
    /\ UNCHANGED <<status, max_participants, owner, messages, restVars, rateVars,
                   presVars, connVars, chanVars, recvd, props>>

\* LobbyViewSet.ban of user t by user a
ban(a, t) ==
    /\ Request
    /\ get_permissions("ban", a)
    /\ IF owner = t
       THEN UNCHANGED <<memberships, bans, events>>
       ELSE /\ memberships' = [memberships EXCEPT ![t] = None]
            /\ IF t \notin bans
               THEN /\ bans' = bans \cup {t}
                    /\ events' = Append(events, LobbyEvent("ban", a, t, "banned from lobby"))
               ELSE UNCHANGED <<bans, events>>
    /\ Quiet
    /\ UNCHANGED <<status, max_participants, owner, messages, restVars, rateVars,
                   presVars, connVars, chanVars, recvd, props>>

\* get_object: the lobby exists (the model follows one lobby id).
Exists == owner # 0

\* LobbyViewSet.create, in the steps that other requests interleave, one
\* request per slot r. First the permission check and serializer.save with
\* owner = request.user (lines 74-76, 105): a is the requesting user (0: no
\* valid token), cap the max_participants asked for.
CreateSave(r, a, cap) ==
    /\ jreq[r].pc = "idle"
    /\ ~Exists
    /\ IF get_permissions("create", a)
       THEN /\ status' = "open"
            /\ max_participants' = cap
            /\ owner' = a
            /\ jreq' = [jreq EXCEPT ![r] =
                          [pc |-> "owner_row", user |-> a, resp |-> "", created |-> TRUE]]
       ELSE /\ jreq' = [jreq EXCEPT ![r] =
                          [pc |-> "done", user |-> a, resp |-> "Forbidden", created |-> FALSE]]
            /\ UNCHANGED <<status, max_participants, owner>>
    /\ Quiet
    /\ UNCHANGED <<memberships, bans, events, messages, joinRet, crashed, rateVars, presVars,
                   connVars, chanVars, budgetVars>>

\* perform_create: the owner's membership (lines 106-111)
CreateMembership(r) ==
    /\ jreq[r].pc = "owner_row"
    /\ memberships' = [memberships EXCEPT ![jreq[r].user] = "owner"]
    /\ jreq' = [jreq EXCEPT ![r].pc = "log"]
    /\ Quiet
    /\ UNCHANGED <<status, max_participants, owner, bans, events, messages, joinRet, crashed,
                   rateVars, presVars, connVars, chanVars, budgetVars>>

\* perform_create: the event row (lines 112-119), and the response
CreateLog(r) ==
    /\ jreq[r].pc = "log"
    /\ events' = Append(events, LobbyEvent("status_change", jreq[r].user, 0, "created"))
    /\ jreq' = [jreq EXCEPT ![r].pc = "done", ![r].resp = "Lobby created"]
    /\ Quiet
    /\ UNCHANGED <<status, max_participants, owner, memberships, bans, messages, joinRet, crashed,
                   rateVars, presVars, connVars, chanVars, budgetVars>>

\* LobbyViewSet.leave by user u
leave(u) ==
    /\ Request
    /\ Exists
    /\ get_permissions("leave", u)
    /\ IF memberships[u] # None /\ memberships[u] # "owner"
       THEN /\ memberships' = [memberships EXCEPT ![u] = None]
            /\ events' = Append(events, LobbyEvent("status_change", u, 0, "left the lobby"))
       ELSE UNCHANGED <<memberships, events>>
    /\ Quiet
    /\ UNCHANGED <<status, max_participants, owner, bans, messages, restVars, rateVars,
                   presVars, connVars, chanVars, recvd, props>>

\* LobbyViewSet.transfer_ownership to user t by user a: the target must be a
\* member; the lobby's owner and the two roles change in one transaction,
\* which is rolled back when the owner has no membership row
transfer_ownership(a, t) ==
    /\ Request
    /\ Exists
    /\ get_permissions("transfer_ownership", a)
    /\ IF memberships[t] # None /\ memberships[owner] # None
       THEN /\ owner' = t
            /\ memberships' = [[memberships EXCEPT ![owner] = "member"] EXCEPT ![t] = "owner"]
            /\ events' = Append(events, LobbyEvent("transfer", a, t, "Ownership transferred"))
       ELSE UNCHANGED <<owner, memberships, events>>
    /\ Quiet
    /\ UNCHANGED <<status, max_participants, bans, messages, restVars, rateVars,
                   presVars, connVars, chanVars, recvd, props>>

\* LobbyViewSet.unban of user t by user a (lines 339-376)
unban(a, t) ==
    /\ Request
    /\ Exists
    /\ get_permissions("unban", a)
    /\ IF t \in bans
       THEN /\ bans' = bans \ {t}
            /\ events' = Append(events, LobbyEvent("unban", a, t, "unbanned from lobby"))
       ELSE UNCHANGED <<bans, events>>
    /\ Quiet
    /\ UNCHANGED <<status, max_participants, owner, memberships, messages, restVars, rateVars,
                   presVars, connVars, chanVars, recvd, props>>

\* LobbyViewSet.add_moderator of user t by user a (lines 378-423)
add_moderator(a, t) ==
    /\ Request
    /\ Exists
    /\ get_permissions("add_moderator", a)
    /\ IF memberships[t] # None /\ memberships[t] # "owner"
       THEN /\ memberships' = [memberships EXCEPT ![t] = "moderator"]
            /\ events' = Append(events, LobbyEvent("mod_add", a, t, "promoted to moderator"))
       ELSE UNCHANGED <<memberships, events>>
    /\ Quiet
    /\ UNCHANGED <<status, max_participants, owner, bans, messages, restVars, rateVars,
                   presVars, connVars, chanVars, recvd, props>>

\* LobbyViewSet.remove_moderator of user t by user a (lines 425-470)
remove_moderator(a, t) ==
    /\ Request
    /\ Exists
    /\ get_permissions("remove_moderator", a)
    /\ IF memberships[t] = "moderator"
       THEN /\ memberships' = [memberships EXCEPT ![t] = "member"]
            /\ events' = Append(events, LobbyEvent("mod_remove", a, t, "demoted from moderator"))
       ELSE UNCHANGED <<memberships, events>>
    /\ Quiet
    /\ UNCHANGED <<status, max_participants, owner, bans, messages, restVars, rateVars,
                   presVars, connVars, chanVars, recvd, props>>

\* LobbyViewSet.start and LobbyViewSet.close by user a (lines 192-226): the
\* status is set whatever it was
SetStatus(action, a, to, text) ==
    /\ Request
    /\ Exists
    /\ get_permissions(action, a)
    /\ status' = to
    /\ events' = Append(events, LobbyEvent("status_change", a, 0, text))
    /\ Quiet
    /\ UNCHANGED <<max_participants, owner, memberships, bans, messages, restVars, rateVars,
                   presVars, connVars, chanVars, recvd, props>>

start(a) == SetStatus("start", a, "in_game", "Game started")

close(a) == SetStatus("close", a, "closed", "Lobby closed")

\* LobbyViewSet.leave in the steps that other requests interleave, one
\* request per slot r. First get_object, the membership row of the user and
\* the check of its role (lines 159-172).
LeaveGet(r, u) ==
    /\ jreq[r].pc = "idle"
    /\ Exists
    /\ get_permissions("leave", u)
    /\ jreq' = [jreq EXCEPT ![r] =
                  IF memberships[u] = None
                  THEN [pc |-> "done", user |-> u, resp |-> "Not in lobby", created |-> FALSE]
                  ELSE IF memberships[u] = "owner"
                  THEN [pc |-> "done", user |-> u, created |-> FALSE,
                        resp |-> "Owner cannot leave lobby. Transfer ownership first."]
                  ELSE [pc |-> "delete", user |-> u, resp |-> "", created |-> FALSE]]
    /\ Quiet
    /\ UNCHANGED <<dbVars, joinRet, crashed, rateVars, presVars, connVars, chanVars, budgetVars>>

\* membership.delete() of the row that was loaded, whatever its role is by
\* now, then the event row and the response (lines 174-184)
LeaveDelete(r) ==
    /\ jreq[r].pc = "delete"
    /\ memberships' = [memberships EXCEPT ![jreq[r].user] = None]
    /\ events' = Append(events, LobbyEvent("status_change", jreq[r].user, 0, "left the lobby"))
    /\ jreq' = [jreq EXCEPT ![r].resp = "Left lobby successfully", ![r].pc = "done"]
    /\ Quiet
    /\ UNCHANGED <<status, max_participants, owner, bans, messages, joinRet, crashed,
                   rateVars, presVars, connVars, chanVars, budgetVars>>

\* ------------------------------------------ moderation events in the group
\* An event of type moderation_kick or moderation_ban with target_id = t is
\* sent to the lobby's group. No code of the repository sends one; the
\* consumers' handlers moderation_kick and moderation_ban receive them.
Propagate(type, t) ==
    /\ Mods < MaxMods
    /\ props' = Append(props, [type |-> type, target |-> t])
    /\ GroupSend(TheLobby, type, t, "", 0, 0, Len(props) + 1)
    /\ Quiet
    /\ UNCHANGED <<dbVars, restVars, rateVars, presVars, connVars, group, recvd, nreqs>>

\* ---------------------------------------------------- the lobby, once created
\* The LobbyEvent rows of the joins of the users u.. of joined, in that order
RECURSIVE JoinRows(_, _)
JoinRows(u, joined) ==
    IF u > NumUsers THEN <<>>
    ELSE (IF u \in joined THEN <<LobbyEvent("status_change", u, 0, "joined the lobby")>>
          ELSE <<>>) \o JoinRows(u + 1, joined)

\* The rows LobbyViewSet.perform_create by user 1 leaves (status 'open' by
\* default, the owner's membership, the creation event) for a lobby of
\* max_participants = cap, and those LobbyViewSet.join adds for the users of
\* joined.
LobbyRows(cap, joined) ==
    /\ status = "open"
    /\ max_participants = cap
    /\ owner = 1
    /\ memberships = [u \in Users |-> IF u = 1 THEN "owner"
                                      ELSE IF u \in joined THEN "member" ELSE None]
    /\ bans = {}
    /\ events = <<LobbyEvent("status_change", 1, 0, "created")>> \o JoinRows(1, joined)
    /\ messages = <<>>

\* ----------------------------- connections opening and closing on the lobby
\* The lobby of user 1, which user 2 has joined or not, and no connection yet.
InitPresence ==
    /\ \E joined \in {{}, {2}} : LobbyRows(MaxCap, joined)
    /\ joinRet = NoRet
    /\ jreq = NoRequests
    /\ crashed = NoCrash
    /\ InitRateIdle
    /\ InitConnsIdle

NextPresence ==
    \/ \E c \in Conns, u \in Users : Connect(c, u, TheLobby)
    \/ \E c \in Conns : CanUserJoin(c)
    \/ \E c \in Conns : GroupAdd(c)
    \/ \E c \in Conns : AddPresenceGet(c)
    \/ \E c \in Conns : AddPresenceSet(c)
    \/ \E c \in Conns : GetOnlineUsers(c)
    \/ \E c \in Conns : ClientClose(c)
    \/ \E c \in Conns : RemovePresenceGet(c)
    \/ \E c \in Conns : RemovePresenceSet(c)
    \/ \E c \in Conns : GroupDiscard(c)
    \/ \E c \in Conns : presence_join(c)
    \/ \E c \in Conns : presence_leave(c)

SpecPresence == InitPresence /\ [][NextPresence]_vars

\* ----------------------------------------------- a connection that crashes
\* The process serving connection c dies: disconnect never runs for it, so
\* its presence entry and its channel are left to expire.
Crash(c) ==
    /\ pc[c] = "active"
    /\ pc' = [pc EXCEPT ![c] = "crashed"]
    /\ crashed' = [crashed EXCEPT ![c] = now]
    /\ Quiet
    /\ UNCHANGED <<dbVars, joinRet, jreq, rateVars, presVars, chanVars, budgetVars,
                   user, lobby_id, lobby, closeCode, chat>>

\* The waits between the steps of the presence scenario: just under and just
\* over the timeout of the presence key.
Waits == {PresenceTTL - 1, PresenceTTL + 1}

\* The scenario is followed for two timeouts of the presence key.
Horizon == 2 * PresenceTTL + MaxTime

\* dt seconds pass, up to second until (never inside the read-modify-write of
\* one cache call).
Elapse(dt, until) ==
    /\ now + dt <= until
    /\ \A c \in Conns : pc[c] \notin SyncStates
    /\ now' = now + dt
    /\ accepted' = [k \in Keys |->
                      [a \in Ages |-> IF a >= dt THEN accepted[k][a - dt] ELSE 0]]
    /\ last' = NoCall
    /\ Quiet
    /\ UNCHANGED <<dbVars, restVars, connVars, presVars, chanVars, budgetVars,
                   rateCache, eternal, rl, raced, nsends>>

NextCrash ==
    \/ \E c \in Conns, u \in Users : Connect(c, u, TheLobby)
    \/ \E c \in Conns : CanUserJoin(c)
    \/ \E c \in Conns : GroupAdd(c)
    \/ \E c \in Conns : AddPresenceGet(c)
    \/ \E c \in Conns : AddPresenceSet(c)
    \/ \E c \in Conns : GetOnlineUsers(c)
    \/ \E c \in Conns : ClientClose(c)
    \/ \E c \in Conns : RemovePresenceGet(c)
    \/ \E c \in Conns : RemovePresenceSet(c)
    \/ \E c \in Conns : GroupDiscard(c)
    \/ \E c \in Conns : presence_join(c)
    \/ \E c \in Conns : presence_leave(c)
    \/ \E c \in Conns : Crash(c)
    \/ \E dt \in Waits : Elapse(dt, Horizon)

SpecCrash == InitPresence /\ [][NextCrash]_vars

\* ------------------------------------------------ connects that are refused
\* The lobby of user 1 some time after its creation: in any status, joined by
\* user 2 or not, user 3 banned or not; no connection yet.
InitConnect ==
    /\ status \in Statuses
    /\ max_participants = MaxCap
    /\ owner = 1
    /\ \E joined \in {{}, {2}} :
        memberships = [u \in Users |-> IF u = 1 THEN "owner"
                                       ELSE IF u \in joined THEN "member" ELSE None]
    /\ bans \in {{}, {3}}
    /\ InitLogs
    /\ joinRet = NoRet
    /\ jreq = NoRequests
    /\ crashed = NoCrash
    /\ InitRateIdle
    /\ InitConnsIdle

\* Connects of any user or of an anonymous client (user 0) to the lobby or to
\* a lobby id that does not resolve (the last one), and the disconnect of the
\* connections that connect closes
NextConnect ==
    \/ \E c \in Conns, u \in Users \cup {0}, l \in {TheLobby, NumLobbies} : Connect(c, u, l)
    \/ \E c \in Conns : CanUserJoin(c)
    \/ \E c \in Conns : GroupAdd(c)
    \/ \E c \in Conns : AddPresenceGet(c)
    \/ \E c \in Conns : AddPresenceSet(c)
    \/ \E c \in Conns : GetOnlineUsers(c)
    \/ \E c \in Conns : RemovePresenceGet(c)
    \/ \E c \in Conns : RemovePresenceSet(c)
    \/ \E c \in Conns : GroupDiscard(c)

SpecConnect == InitConnect /\ [][NextConnect]_vars

\* ------------------------------------------- Active connections on the lobby
\* Users 2 and 3 connected to a lobby with room for every user while neither
\* was a member (connection 2 is of user 3, the others are of user 2), and
\* then joined: every connection is Active, in the
\* group, and both users are in the presence set.
InitActive ==
    /\ LobbyRows(NumUsers, {2, 3})
    /\ joinRet = NoRet
    /\ jreq = NoRequests
    /\ crashed = NoCrash
    /\ InitRateIdle
    /\ pc = [c \in Conns |-> "active"]
    /\ user = [c \in Conns |-> IF c = 2 THEN 3 ELSE 2]
    /\ lobby_id = [c \in Conns |-> TheLobby]
    /\ lobby = [c \in Conns |-> "open"]
    /\ closeCode = [c \in Conns |-> 0]
    /\ chat = [c \in Conns |-> NoMessage]
    /\ ploc = [c \in Conns |-> {}]
    /\ presence = [NoPresences EXCEPT ![TheLobby] = [users |-> {2, 3}, exp |-> PresenceTTL]]
    /\ group = Conns
    /\ inbox = [c \in Conns |-> <<>>]
    /\ bcast = NoBroadcast
    /\ out = NoOut
    /\ seen = [c \in Conns |-> [d \in Conns |-> 0]]
    /\ recvd = [c \in Conns |-> 0]
    /\ nreqs = 0
    /\ props = <<>>

\* The consumer's disconnect, whoever closed the socket, and the
\* presence_leave events it sends
Disconnect(c) ==
    \/ RemovePresenceGet(c)
    \/ RemovePresenceSet(c)
    \/ GroupDiscard(c)
    \/ presence_leave(c)

\* Joins, kicks and bans by the owner over REST, moderation events in the
\* group, their handlers
NextModeration ==
    \/ \E u \in Users : join(u)
    \/ \E t \in Users : kick(owner, t)
    \/ \E t \in Users : ban(owner, t)
    \/ \E t \in Users : Propagate("moderation_kick", t)
    \/ \E t \in Users : Propagate("moderation_ban", t)
    \/ \E c \in Conns : moderation_kick(c)
    \/ \E c \in Conns : moderation_ban(c)
    \/ \E c \in Conns : Disconnect(c)

SpecModeration == InitActive /\ [][NextModeration]_vars

\* Users 2 and 3 each hold one Active connection on the lobby they joined
\* (connection 1 is of user 2, connection 2 of user 3); no other socket is
\* open, and none is opened.
InitSessions(stored) ==
    /\ LobbyRows(NumUsers, {2, 3})
    /\ joinRet = NoRet
    /\ jreq = NoRequests
    /\ crashed = NoCrash
    /\ InitRateIdle
    /\ pc = [c \in Conns |-> IF c + 1 \in {2, 3} THEN "active" ELSE "new"]
    /\ user = [c \in Conns |-> IF c + 1 \in {2, 3} THEN c + 1 ELSE 0]
    /\ lobby_id = [c \in Conns |-> IF c + 1 \in {2, 3} THEN TheLobby ELSE 0]
    /\ lobby = [c \in Conns |-> IF c + 1 \in {2, 3} THEN "open" ELSE None]
    /\ closeCode = [c \in Conns |-> 0]
    /\ chat = [c \in Conns |-> NoMessage]
    /\ ploc = [c \in Conns |-> {}]
    /\ presence = [NoPresences EXCEPT ![TheLobby] = stored]
    /\ group = {c \in Conns : c + 1 \in {2, 3}}
    /\ inbox = [c \in Conns |-> <<>>]
    /\ bcast = NoBroadcast
    /\ out = NoOut
    /\ seen = [c \in Conns |-> [d \in Conns |-> 0]]
    /\ recvd = [c \in Conns |-> 0]
    /\ nreqs = 0
    /\ props = <<>>

InitTeardown == InitSessions([users |-> {2, 3}, exp |-> PresenceTTL])

\* The users who hold a connection
Online == {user[c] : c \in Conns} \ {0}

\* The connections of the users who are no longer members
Kicked == {c \in Conns : pc[c] # "new" /\ ~is_user_member(c)}

\* Every way an Active connection is torn down: the client closes (or the
\* transport fails), a moderation event names its user, or its user, kicked
\* in the meantime, sends a chat message.
NextTeardown ==
    \/ \E c \in Conns : ClientClose(c)
    \/ \E t \in Online : kick(owner, t)
    \/ \E t \in Online : Propagate("moderation_kick", t)
    \/ \E t \in Online : Propagate("moderation_ban", t)
    \/ \E c \in Conns : moderation_kick(c)
    \/ \E c \in Conns : moderation_ban(c)
    \/ \E c \in Kicked : handle_chat_message(c, Text("Hello", 5, FALSE))
    \/ \E c \in Conns : ChatRateLimit(c)
    \/ \E c \in Conns : ChatIsMember(c)
    \/ \E c \in Conns : Disconnect(c)

\* Once websocket.disconnect has been delivered, the event loop of the worker
\* runs disconnect through each of its awaits; a synchronous stretch that a
\* consumer of the worker has begun (check_rate_limit) runs to its end.
FairTeardown ==
    \A c \in Conns :
        /\ WF_vars(ChatRateLimit(c))
        /\ WF_vars(RemovePresenceGet(c))
        /\ WF_vars(RemovePresenceSet(c))
        /\ WF_vars(GroupDiscard(c))

SpecTeardown == InitTeardown /\ [][NextTeardown]_vars /\ FairTeardown

\* ------------------------------------------- removals from any stored set
\* Users 2 and 3 each hold an Active connection; the key of the lobby holds
\* both, or lacks one (its add was overwritten), or holds a user whose
\* connection is gone (it crashed, or its removal was overwritten), or was
\* deleted (by the removal of a user that has left since).
InitLeave ==
    \E stored \in {NoPresence} \cup {[users |-> S, exp |-> PresenceTTL] :
                                       S \in (SUBSET Users) \ {{}}} :
        InitSessions(stored)

NextLeave ==
    \/ \E c \in Conns : ClientClose(c)
    \/ \E c \in Conns : Disconnect(c)

SpecLeave == InitLeave /\ [][NextLeave]_vars

\* The connections whose clients send frames: those of user 2
Senders == {c \in Conns : user[c] = 2}

\* Client frames and the events they cause
NextChat ==
    \/ \E c \in Senders : handle_typing_start(c)
    \/ \E c \in Senders : handle_typing_stop(c)
    \/ \E c \in Senders, m \in Contents : handle_chat_message(c, m)
    \/ \E c \in Conns : ChatRateLimit(c)
    \/ \E c \in Conns : ChatIsMember(c)
    \/ \E c \in Conns, stored \in BOOLEAN : SaveMessage(c, stored)
    \/ \E c \in Conns : ChatBroadcast(c)
    \/ \E c \in Conns : chat_message(c)
    \/ \E c \in Conns : typing_start(c)
    \/ \E c \in Conns : typing_stop(c)

SpecChat == InitActive /\ [][NextChat]_vars

\* ------------------------------------------- chat messages that are refused
\* The Active connections of InitActive after user 2 has sent this many messages
\* within this second, all stored and relayed; frames are counted from here
\* on.
InitSent(sent) ==
    /\ status = "open"
    /\ max_participants = NumUsers
    /\ owner = 1
    /\ memberships = [u \in Users |-> IF u = 1 THEN "owner"
                                      ELSE IF u \in {2, 3} THEN "member" ELSE None]
    /\ bans = {}
    /\ events = <<LobbyEvent("status_change", 1, 0, "created")>> \o JoinRows(1, {2, 3})
    /\ messages = [i \in 1..sent |-> [id |-> i, sender |-> 2, content |-> "Hello"]]
    /\ joinRet = NoRet
    /\ jreq = NoRequests
    /\ crashed = NoCrash
    /\ now = 0
    /\ rateCache = [k \in Keys |->
                      IF k = <<2, TheLobby>>
                      THEN [ts |-> [i \in 1..sent |-> 0], exp |-> RateTTL]
                      ELSE [ts |-> <<>>, exp |-> 0]]
    /\ eternal = [k \in Keys |-> IF k = <<2, TheLobby>> THEN [i \in 1..sent |-> 0] ELSE <<>>]
    /\ rl = [c \in Conns |-> NoLocals]
    /\ last = NoCall
    /\ accepted = [k \in Keys |-> [a \in Ages |->
                      IF k = <<2, TheLobby>> /\ a = 0 THEN sent ELSE 0]]
    /\ raced = [k \in Keys |-> FALSE]
    /\ nsends = sent
    /\ pc = [c \in Conns |-> "active"]
    /\ user = [c \in Conns |-> IF c = 2 THEN 3 ELSE 2]
    /\ lobby_id = [c \in Conns |-> TheLobby]
    /\ lobby = [c \in Conns |-> "open"]
    /\ closeCode = [c \in Conns |-> 0]
    /\ chat = [c \in Conns |-> NoMessage]
    /\ ploc = [c \in Conns |-> {}]
    /\ presence = [NoPresences EXCEPT ![TheLobby] = [users |-> {2, 3}, exp |-> PresenceTTL]]
    /\ group = Conns
    /\ inbox = [c \in Conns |-> <<>>]
    /\ bcast = NoBroadcast
    /\ out = NoOut
    /\ seen = [c \in Conns |-> [d \in Conns |-> 0]]
    /\ recvd = [c \in Conns |-> 0]
    /\ nreqs = 0
    /\ props = <<>>

\* One more message of user 2 fits the rate window.
InitSend == InitSent(RateLimit - 1)

\* Chat frames of user 2's connections, with texts at the limits of the validation,
\* while the owner may kick the senders and the store may refuse a row
NextSend ==
    \/ \E c \in Senders, m \in SendContents : handle_chat_message(c, m)
    \/ \E c \in Conns : ChatRateLimit(c)
    \/ \E c \in Conns : ChatIsMember(c)
    \/ \E c \in Conns, stored \in BOOLEAN : SaveMessage(c, stored)
    \/ \E c \in Conns : ChatBroadcast(c)
    \/ \E c \in Conns : chat_message(c)
    \/ \E t \in Online : kick(owner, t)
    \/ \E c \in Conns : Disconnect(c)

SpecSend == InitSend /\ [][NextSend]_vars

\* ------------------------------------------------------- malformed frames
\* Malformed frames of user 2's connections among its chat frames
NextReceive ==
    \/ \E c \in Senders, f \in BadFrames : receive(c, f)
    \/ NextSend

SpecReceive == InitSend /\ [][NextReceive]_vars

\* ------------------------------------------------------ typing indicators
\* The rate window of user 2 is full.
InitTyping == InitSent(RateLimit)

\* Typing frames of user 2's connections while the owner may kick that user
NextTyping ==
    \/ \E c \in Senders : handle_typing_start(c)
    \/ \E c \in Senders : handle_typing_stop(c)
    \/ \E c \in Conns : typing_start(c)
    \/ \E c \in Conns : typing_stop(c)
    \/ \E c \in Senders : kick(owner, user[c])

SpecTyping == InitTyping /\ [][NextTyping]_vars

\* ---------------------------------------------- concurrent joins of a user
\* The lobby of user 1 some time after its creation: in any status, with room
\* for the owner and one more user or for every user, joined by user 3 or
\* not, by user 2 or not, user 2 banned (then not a member) or not; no join
\* request in progress.
InitRace ==
    /\ status \in Statuses
    /\ max_participants \in {MaxCap, NumUsers}
    /\ owner = 1
    /\ \E joined \in SUBSET {2, 3} :
        /\ memberships = [u \in Users |-> IF u = 1 THEN "owner"
                                          ELSE IF u \in joined THEN "member" ELSE None]
        /\ bans \in (IF 2 \in joined THEN {{}} ELSE {{}, {2}})
    /\ InitLogs
    /\ joinRet = NoRet
    /\ jreq = NoRequests
    /\ crashed = NoCrash
    /\ InitRateIdle
    /\ InitConnsIdle

\* Join requests of user 2, each in a slot of its own, served concurrently
NextRace ==
    \/ \E r \in Reqs : JoinCanJoin(r, 2)
    \/ \E r \in Reqs : GetOrCreate(r)
    \/ \E r \in Reqs : JoinRespond(r)

SpecRace == InitRace /\ [][NextRace]_vars

\* ------------------------------------- joins racing with other requests
\* The lobby is that of InitPresence: of user 1, with room for the owner and
\* MaxCap - 1 more, which user 2 has joined or not.
\* Join requests of any users, served concurrently step by step, among
\* leave requests and the owner's kicks and bans
NextFill ==
    \/ \E r \in Reqs, u \in Users : JoinCanJoin(r, u)
    \/ \E r \in Reqs : GetOrCreate(r)
    \/ \E r \in Reqs : JoinRespond(r)
    \/ \E u \in Users : leave(u)
    \/ \E t \in Users : kick(owner, t)
    \/ \E t \in Users : ban(owner, t)
    \/ \E t \in Users : unban(owner, t)

SpecFill == InitPresence /\ [][NextFill]_vars

\* ------------------------------------------------ requests of any user
\* The lobby of user 1 with room for every user, joined by user 2.
InitOps ==
    /\ LobbyRows(NumUsers, {2})
    /\ joinRet = NoRet
    /\ jreq = NoRequests
    /\ crashed = NoCrash
    /\ InitRateIdle
    /\ InitConnsIdle

\* The requests that change the lobby, each by any user and on any user
NextOps ==
    \/ \E u \in Users : join(u)
    \/ \E r \in Reqs, u \in Users : LeaveGet(r, u)
    \/ \E r \in Reqs : LeaveDelete(r)
    \/ \E a, t \in Users : kick(a, t)
    \/ \E a, t \in Users : ban(a, t)
    \/ \E a, t \in Users : unban(a, t)
    \/ \E a, t \in Users : add_moderator(a, t)
    \/ \E a, t \in Users : remove_moderator(a, t)
    \/ \E a, t \in Users : transfer_ownership(a, t)
    \/ \E a \in Users : start(a)
    \/ \E a \in Users : close(a)

SpecOps == InitOps /\ [][NextOps]_vars

\* The requests that write the audit log, the moderation ones by the owner
NextLog ==
    \/ \E u \in Users : join(u)
    \/ \E u \in Users : leave(u)
    \/ \E t \in Users : kick(owner, t)
    \/ \E t \in Users : ban(owner, t)
    \/ \E t \in Users : unban(owner, t)
    \/ \E t \in Users : add_moderator(owner, t)
    \/ \E t \in Users : remove_moderator(owner, t)
    \/ \E t \in Users : transfer_ownership(owner, t)
    \/ start(owner)
    \/ close(owner)

SpecLog == InitOps /\ [][NextLog]_vars

\* ------------------------------------------ sockets opened on a lobby for two
\* Sockets are opened on the lobby while its owner hands it over and leaves.
NextCrowd ==
    \/ \E c \in Conns, u \in Users : Connect(c, u, TheLobby)
    \/ \E c \in Conns : CanUserJoin(c)
    \/ \E c \in Conns : GroupAdd(c)
    \/ \E c \in Conns : AddPresenceGet(c)
    \/ \E c \in Conns : AddPresenceSet(c)
    \/ \E c \in Conns : GetOnlineUsers(c)
    \/ \E c \in Conns : presence_join(c)
    \/ \E u \in Users : join(u)
    \/ \E u \in Users : leave(u)
    \/ \E t \in Users : transfer_ownership(owner, t)

\* The lobby of user 1 with max_participants MaxCap, which user 2 has joined.
\* User 2 opened its socket before joining (connect admits no member) and it
\* is still Active: user 2 is in the presence set. That socket is none of the
\* connections 1..NumConns, which are all yet to be opened, and it stays open.
InitCrowd ==
    /\ LobbyRows(MaxCap, {2})
    /\ joinRet = NoRet
    /\ jreq = NoRequests
    /\ crashed = NoCrash
    /\ InitRateIdle
    /\ pc = [c \in Conns |-> "new"]
    /\ user = [c \in Conns |-> 0]
    /\ lobby_id = [c \in Conns |-> 0]
    /\ lobby = [c \in Conns |-> None]
    /\ closeCode = [c \in Conns |-> 0]
    /\ chat = [c \in Conns |-> NoMessage]
    /\ ploc = [c \in Conns |-> {}]
    /\ presence = [NoPresences EXCEPT ![TheLobby] = [users |-> {2}, exp |-> PresenceTTL]]
    /\ group = {}
    /\ inbox = [c \in Conns |-> <<>>]
    /\ bcast = NoBroadcast
    /\ out = NoOut
    /\ seen = [c \in Conns |-> [d \in Conns |-> 0]]
    /\ recvd = [c \in Conns |-> 0]
    /\ nreqs = 0
    /\ props = <<>>

SpecCrowd == InitCrowd /\ [][NextCrowd]_vars

\* ------------------------------------------------------- lobby creation
\* No lobby yet, no request in progress, no connection.
InitCreate ==
    /\ status = None
    /\ max_participants = 0
    /\ owner = 0
    /\ memberships = [u \in Users |-> None]
    /\ bans = {}
    /\ InitLogs
    /\ joinRet = NoRet
    /\ jreq = NoRequests
    /\ crashed = NoCrash
    /\ InitRateIdle
    /\ InitConnsIdle

\* Create requests of any user or of a client without a valid token, and,
\* once the lobby exists, joins, leaves, kicks and transfers of ownership
NextCreate ==
    \/ \E r \in Reqs, a \in Users \cup {0} : CreateSave(r, a, MaxCap)
    \/ \E r \in Reqs : CreateMembership(r)
    \/ \E r \in Reqs : CreateLog(r)
    \/ \E u \in Users : Exists /\ join(u)
    \/ \E u \in Users : leave(u)
    \/ \E a, t \in Users : Exists /\ kick(a, t)
    \/ \E a, t \in Users : transfer_ownership(a, t)

SpecCreate == InitCreate /\ [][NextCreate]_vars


\* Active consumers with empty rate windows, each calling check_rate_limit as
\* its chat_message frames arrive: connections 1 and 2 are of one user in one
\* lobby (served by different workers), connection 3 is of the same user in
\* another lobby, further connections are of another user.
InitCalls(users, lobbies) ==
    /\ status = "open"
    /\ max_participants = MaxCap
    /\ memberships = [u \in Users |-> None]
    /\ bans = {}
    /\ owner = 1
    /\ joinRet = NoRet
    /\ jreq = NoRequests
    /\ crashed = NoCrash
    /\ InitLogs
    /\ InitRateIdle
    /\ pc = [c \in Conns |-> "active"]
    /\ user = users
    /\ lobby_id = lobbies
    /\ lobby = [c \in Conns |-> "open"]
    /\ closeCode = [c \in Conns |-> 0]
    /\ chat = [c \in Conns |-> NoMessage]
    /\ ploc = [c \in Conns |-> {}]
    /\ presence = NoPresences
    /\ group = {}
    /\ inbox = [c \in Conns |-> <<>>]
    /\ bcast = NoBroadcast
    /\ out = NoOut
    /\ seen = [c \in Conns |-> [d \in Conns |-> 0]]
    /\ recvd = [c \in Conns |-> 0]
    /\ nreqs = 0
    /\ props = <<>>

InitRate ==
    InitCalls([c \in Conns |-> IF c <= 3 THEN 1 ELSE 2],
              [c \in Conns |-> IF c = 3 THEN 2 ELSE 1])

RateCall(c) ==
    /\ pc[c] = "active"
    /\ LoopFree(c)
    /\ CheckRateLimitGet(c)
    /\ pc' = [pc EXCEPT ![c] = "rl_set"]
    /\ Quiet
    /\ UNCHANGED <<dbVars, restVars, user, lobby_id, lobby, closeCode, chat,
                   presVars, chanVars, budgetVars>>

RateReturn(c) ==
    /\ pc[c] = "rl_set"
    /\ CheckRateLimitSet(c)
    /\ pc' = [pc EXCEPT ![c] = "active"]
    /\ Quiet
    /\ UNCHANGED <<dbVars, restVars, user, lobby_id, lobby, closeCode, chat,
                   presVars, chanVars, budgetVars>>

NextRate ==
    \/ \E c \in Conns : RateCall(c)
    \/ \E c \in Conns : RateReturn(c)
    \/ Tick

SpecRate == InitRate /\ [][NextRate]_vars

\* --------------------------------------------- calls of a user in two lobbies
\* Connections 1 and 2 are of user 1 in lobbies 1 and 2, further connections
\* are of user 2 in lobby 1.
InitFrame ==
    InitCalls([c \in Conns |-> IF c <= 2 THEN 1 ELSE 2],
              [c \in Conns |-> IF c = 2 THEN 2 ELSE 1])

SpecFrame == InitFrame /\ [][NextRate]_vars

\* ------------------------------------------- calls across an evicted key
\* The pauses between calls: a second, or long enough for the key to be evicted.
Pauses == {1, RateTTL}

\* Calls are followed until the key written last can have been evicted.
EvictHorizon == RateTTL + MaxTime

NextEvict ==
    \/ \E c \in Conns : RateCall(c)
    \/ \E c \in Conns : RateReturn(c)
    \/ \E dt \in Pauses : Elapse(dt, EvictHorizon)

SpecEvict == InitRate /\ [][NextEvict]_vars

\* Number of calls of key k accepted with a timestamp in the last 2 seconds,
\* the rolling window (now - 2s, now]
AcceptedInWindow(k) ==
    LET RECURSIVE Sum(_)
        Sum(a) == IF a \notin Ages THEN 0 ELSE accepted[k][a] + Sum(a + 1)
    IN  Sum(0)

\* C3: for every (user, lobby) key, at most 3 sends are accepted within any
\* rolling 2-second window, whichever connections of the user issue them.
C3_AtMostThreePerWindow ==
    \A k \in Keys : AcceptedInWindow(k) <= RateLimit

\* C4: from an empty window, sends issued one after the other for one key:
\* a send is accepted while fewer than 3 were accepted in the last 2 seconds
\* (the first three, and any send after the window has elapsed), and is
\* rejected once 3 were (the fourth within the window).
C4_ThreeThenRejectThenAgain ==
    LET k == RateKey(last.c)
    IN  (last.c # 0 /\ last.t = now) =>
            /\ (last.ok /\ ~raced[k]) => AcceptedInWindow(k) <= RateLimit
            /\ ~last.ok => AcceptedInWindow(k) >= RateLimit

\* C4 witness: one connection alone on its key had three sends accepted and a
\* fourth rejected, and 2 seconds later has a fifth accepted.
C4_Witness ==
    /\ last.c = 1
    /\ last.ok
    /\ last.t = now
    /\ nsends = RateLimit + 2
    /\ rateCache[RateKey(1)].ts = <<now>>
    /\ now = RateWindow

\* ------------------------------------------------ can_join on any lobby row
\* Any lobby row with any membership and ban rows (the model's constraints
\* are those of the schema: one role per (user, lobby), one ban per pair).
InitJoin ==
    /\ status \in Statuses
    /\ max_participants \in 0..MaxCap
    /\ memberships \in [Users -> Roles \cup {None}]
    /\ bans \in SUBSET Users
    /\ owner = 1
    /\ joinRet = NoRet
    /\ jreq = NoRequests
    /\ crashed = NoCrash
    /\ InitLogs
    /\ InitRateIdle
    /\ InitConnsIdle

CanJoinCall(u) ==
    /\ joinRet' = [user |-> u, res |-> can_join(status, u)]
    /\ UNCHANGED <<jreq, crashed>>
    /\ Quiet
    /\ UNCHANGED <<dbVars, rateVars, connVars, presVars, chanVars, budgetVars>>

NextJoin == \E u \in Users : CanJoinCall(u)

SpecJoin == InitJoin /\ [][NextJoin]_vars

\* C1: can_join(L, U) returns allowed = true if and only if L is open, L has
\* strictly fewer memberships than max_participants, U has no ban and U has
\* no membership.
C1_JoinAdmission ==
    joinRet.user # 0 =>
        (joinRet.res.allowed <=>
            /\ status = "open"
            /\ Cardinality({u \in Users : memberships[u] # None}) < max_participants
            /\ joinRet.user \notin bans
            /\ memberships[joinRet.user] = None)

\* C1 witness: a user is admitted to an open lobby that already has a member
\* and exactly one free place, and another user holds a ban.
C1_Witness ==
    /\ joinRet.user # 0
    /\ joinRet.res.allowed
    /\ current_participants_count + 1 = max_participants
    /\ current_participants_count > 0
    /\ bans # {}

\* C2: a denial carries the reason of the first failing check in the order
\* not open, full, banned, already a member.
C2_DenialPrecedence ==
    LET u == joinRet.user
        r == joinRet.res.reason
        n == Cardinality({m \in Users : memberships[m] # None})
    IN  (joinRet.user # 0 /\ ~joinRet.res.allowed) =>
            /\ status # "open" => r = "Lobby is not open"
            /\ (status = "open" /\ n >= max_participants) => r = "Lobby is full"
            /\ (status = "open" /\ n < max_participants /\ u \in bans) =>
                    r = "You are banned from this lobby"
            /\ (status = "open" /\ n < max_participants /\ u \notin bans) =>
                    r = "Already in lobby"

\* C2 witness: a banned user who is also a member of a full open lobby is
\* told the lobby is full.
C2_Witness ==
    /\ joinRet.user # 0
    /\ status = "open"
    /\ joinRet.user \in bans
    /\ memberships[joinRet.user] # None
    /\ is_full
    /\ joinRet.res.reason = "Lobby is full"


\* ------------------------------------------------- presence and connections
\* connect has started on the connection
Opened(c) == pc[c] # "new"

\* No connection is inside connect or disconnect.
Quiescent == \A c \in Conns : pc[c] \in {"new", "active", "closed"}

HasActive(u) == \E c \in Conns : pc[c] = "active" /\ user[c] = u

\* The presence set holds exactly the users with an Active connection.
PresenceExact == \A u \in Users : u \in CacheGetPresence(TheLobby) <=> HasActive(u)

\* C5: a user is in the presence set of the lobby if and only if the user has
\* at least one Active connection to it, also when the user holds several
\* connections. Stated for the states in which no connect or disconnect is
\* under way and every connection opened so far is of one user.
C5_PresenceIffActive ==
    (Quiescent /\ \A c, d \in Conns : (Opened(c) /\ Opened(d)) => user[c] = user[d])
        => PresenceExact

\* C6: after connects and disconnects of distinct users that overlap in time,
\* the presence set holds exactly the users with an Active connection: no
\* update is lost. Stated for the states in which no connect or disconnect is
\* under way and the connections opened so far are of pairwise distinct users.
C6_NoLostPresenceUpdate ==
    (Quiescent /\ \A c, d \in Conns : (Opened(c) /\ Opened(d) /\ c # d) => user[c] # user[d])
        => PresenceExact

\* C9: in an open lobby that has its owner and a member, neither banned, the
\* owner and the member who open a WebSocket to it are not turned away: no
\* connection of theirs is closed with 4003.
C9_MembersReachActive ==
    \A c \in Conns :
        (Opened(c) /\ user[c] \in Users /\ status = "open" /\ lobby_id[c] = TheLobby
         /\ memberships[user[c]] # None /\ user[c] \notin bans
         /\ \E b \in Users : memberships[b] = "member")
            => closeCode[c] # 4003

\* --------------------------------------------------------------- moderation
ModTypes == {"moderation_kick", "moderation_ban"}

\* The consumer has not been closed.
Live == {"active", "rl_set", "is_member", "save", "broadcast"}

\* The i-th moderation event sent to the group lies in the channel of c.
Pending(c, i) ==
    \E j \in 1..Len(inbox[c]) :
        /\ inbox[c][j].type = props[i].type
        /\ inbox[c][j].uid = props[i].target
        /\ inbox[c][j].src = 0
        /\ inbox[c][j].n = i

\* This step is the handler of connection c for a moderation event.
HandlesModeration(c) ==
    /\ pc[c] = "active"
    /\ inbox[c] # <<>>
    /\ Head(inbox[c]).type \in ModTypes
    /\ inbox'[c] = Tail(inbox[c])

\* C7: once a moderation_kick or moderation_ban event for user U is delivered
\* to the group, every Active connection of U is closed with 4003 when it
\* handles the event (until then the event waits in its channel), having been
\* told of the removal, and the connections of the other users pass on the
\* informational variant naming U and stay as they are.
C7_ModerationClosesTarget ==
    /\ [](\A i \in 1..Len(props) : \A c \in Conns :
            (user[c] = props[i].target /\ pc[c] \in Live) => Pending(c, i))
    /\ [][\A c \in Conns :
            HandlesModeration(c) =>
                LET ev == Head(inbox[c])
                IN  IF ev.uid = user[c]
                    THEN /\ pc'[c] = "closing"
                         /\ closeCode'[c] = 4003
                         /\ Len(out'[c]) = 1
                         /\ out'[c][1].type = ev.type
                         /\ out'[c][1].text # ""
                    ELSE /\ pc'[c] = "active"
                         /\ closeCode'[c] = closeCode[c]
                         /\ Len(out'[c]) = 1
                         /\ out'[c][1].type = ev.type
                         /\ out'[c][1].uid = ev.uid]_vars

\* A connection of the target has been closed with 4003 and the connection
\* of another user, still Active, has just passed on the informational variant.
C7_Witness ==
    \E i \in 1..Len(props) : \E c, d \in Conns :
        /\ user[c] = props[i].target
        /\ pc[c] \notin Live
        /\ closeCode[c] = 4003
        /\ user[d] # props[i].target
        /\ pc[d] = "active"
        /\ Len(out[d]) = 1
        /\ out[d][1].type = props[i].type
        /\ out[d][1].uid = props[i].target

\* C8: when the moderator's ban or kick of a user over REST succeeds, a
\* moderation event for that user is sent to the lobby's group, so that it
\* lies in the channel of every connection of the group.
C8_BanKickBroadcast ==
    [][(Len(events') > Len(events) /\ events'[Len(events')].event_type \in {"kick", "ban"})
        => \A d \in group :
            /\ Len(inbox'[d]) = Len(inbox[d]) + 1
            /\ inbox'[d][Len(inbox'[d])].type \in ModTypes
            /\ inbox'[d][Len(inbox'[d])].uid = events'[Len(events')].target]_vars

\* ------------------------------------------------------ order of the events
\* C10: the frames a connection passes on to its client that come from the
\* inbound frames of one sender connection come in the order in which that
\* connection received those inbound frames.
C10_SingleSenderOrder ==
    [][\A r \in Conns : \A i \in 1..Len(out'[r]) :
        out'[r][i].src # 0 => out'[r][i].n > seen[r][out'[r][i].src]]_vars

\* The sender has received three frames, one of them a chat message that was
\* stored, and the connection of another user has just passed on the
\* typing_stop event of the third.
C10_Witness ==
    \E r \in Conns : \E s \in Conns :
        /\ user[r] # user[s]
        /\ recvd[s] = 3
        /\ Len(messages) = 1
        /\ messages[1].sender = user[s]
        /\ Len(out[r]) = 1
        /\ out[r][1].type = "typing_stop"
        /\ out[r][1].src = s
        /\ out[r][1].n = 3


\* ------------------------------------------------- connects that are refused
\* Lobby.can_join has a reason to deny user u.
ShouldDeny(u) ==
    \/ status # "open"
    \/ Cardinality({v \in Users : memberships[v] # None}) >= max_participants
    \/ u \in bans
    \/ memberships[u] # None

\* disconnect is running or has run on the connection.
TornDown == {"closing", "rm_set", "discard", "closed"}

\* C11: a connection whose user can_join denies at connect (lobby not open,
\* full, user banned or already a member) is sent an error event and closed
\* with 4003; it is never in the lobby's group, neither before the denial nor
\* after it, and no step of it puts its user into the presence set.
C11_DeniedNeverJoins ==
    /\ [](\A c \in Conns :
            /\ pc[c] \in {"new", "can_join"} => c \notin group
            /\ closeCode[c] = 4003 => (c \notin group /\ pc[c] \in TornDown))
    /\ [][\A c \in Conns :
            /\ (pc[c] = "can_join" /\ pc'[c] # "can_join" /\ ShouldDeny(user[c]))
                => /\ closeCode'[c] = 4003
                   /\ pc'[c] = "closing"
                   /\ Len(out'[c]) = 1
                   /\ out'[c][1].type = "error"
            /\ (closeCode'[c] = 4003 /\ pc'[c] # pc[c])
                => (user[c] \in presence'[lobby_id[c]].users
                        => user[c] \in presence[lobby_id[c]].users)]_vars

\* User 3, neither banned nor a member, connected to the open lobby that the
\* owner and user 2 fill: the connection was closed with 4003, its disconnect
\* has run, and user 3 is not in the presence set.
C11_Witness ==
    \E c \in Conns :
        /\ user[c] = 3
        /\ lobby_id[c] = TheLobby
        /\ status = "open"
        /\ 3 \notin bans
        /\ memberships[3] = None
        /\ memberships[2] = "member"
        /\ closeCode[c] = 4003
        /\ pc[c] = "closed"
        /\ 3 \notin CacheGetPresence(TheLobby)
        /\ \E d \in Conns : d # c /\ pc[d] \in {"closing", "closed"} /\ closeCode[d] = 4003

\* C12: an anonymous connection is closed with 4001 and an authenticated one
\* whose lobby id does not resolve with 4004; such a connection is never in
\* the group, and no event is sent to the group of its lobby id for its user.
C12_UnauthenticatedOrNotFound ==
    \A c \in Conns :
        /\ (Opened(c) /\ user[c] = 0) => closeCode[c] = 4001
        /\ (Opened(c) /\ user[c] # 0 /\ lobby_id[c] # TheLobby) => closeCode[c] = 4004
        /\ closeCode[c] \in {4001, 4004}
            => /\ c \notin group
               /\ pc[c] \in TornDown
               /\ ~(bcast.lobby = lobby_id[c] /\ bcast.uid = user[c] /\ lobby_id[c] # TheLobby)

\* C14: the disconnect of a connection that connect refused (4001, 4003 or
\* 4004; no other step closes a connection with a code here) puts no
\* presence_leave event into the channel of any consumer of the group.
C14_LeaveOnlyAfterActive ==
    [][\A c \in Conns :
        (pc[c] = "rm_set" /\ pc'[c] = "discard" /\ closeCode[c] # 0)
            => UNCHANGED inbox]_vars


\* ----------------------------------------------------------------- teardown
\* This step of connection c is the one of disconnect that follows `from`.
TeardownStep(c, from, to) == pc[c] = from /\ pc'[c] = to

\* C13: for a connection that reached Active, whatever closes it (the client,
\* a moderation event, the membership check of a chat message), disconnect
\* runs to its end, and it performs each of its three effects in exactly one
\* step: its user is taken out of the presence set it writes and
\* presence_leave for its user goes to the group, then the connection leaves
\* the group; a closed connection takes no further step.
C13_TeardownOnce ==
    /\ \A c \in Conns : (pc[c] = "closing") ~> (pc[c] = "closed")
    /\ [](\A c \in Conns : pc[c] = "closed" => c \notin group)
    /\ [][\A c \in Conns :
            (pc[c] \in TornDown /\ pc'[c] # pc[c])
                => \/ /\ TeardownStep(c, "closing", "rm_set")
                      /\ UNCHANGED <<presence, inbox, group>>
                   \/ /\ TeardownStep(c, "rm_set", "discard")
                      /\ user[c] \notin presence'[lobby_id[c]].users
                      /\ bcast' = [lobby |-> lobby_id[c], type |-> "presence_leave",
                                   uid |-> user[c]]
                      /\ \A d \in group :
                            /\ Len(inbox'[d]) = Len(inbox[d]) + 1
                            /\ inbox'[d][Len(inbox'[d])].type = "presence_leave"
                            /\ inbox'[d][Len(inbox'[d])].uid = user[c]
                      /\ UNCHANGED group
                   \/ /\ TeardownStep(c, "discard", "closed")
                      /\ c \in group
                      /\ group' = group \ {c}
                      /\ UNCHANGED presence]_vars

\* One connection closed by a moderation event and another closed by its
\* client (or by the membership check) have both finished disconnect.
C13_Witness ==
    \E c, d \in Conns :
        /\ pc[c] = "closed" /\ closeCode[c] = 4003
        /\ pc[d] = "closed" /\ closeCode[d] = 0
        /\ group = {}
        /\ props # <<>>

\* ------------------------------------------------- chat messages refused
\* The step sends one error event with this message to the client of c and
\* nothing to any other client.
OnlyError(c, message) ==
    out' = [d \in Conns |-> IF d = c THEN <<ErrorFrame(message)>> ELSE <<>>]

\* The step stores no message and sends no event to the group.
NotStoredNotSent == UNCHANGED <<messages, inbox, bcast>>

\* C15: a chat_message whose text is empty once stripped, or longer than 2000
\* characters once stripped, gets only an error event: no row is stored, no
\* event goes to the group, the connection stays Active and its rate window
\* is not touched; a text of exactly 2000 characters once stripped (with or
\* without surrounding whitespace) passes on to the rate limiter.
C15_InvalidContentRejected ==
    [][\A c \in Conns, m \in SendContents :
        handle_chat_message(c, m) =>
            IF Strip(m).len = 0
            THEN /\ OnlyError(c, "Message cannot be empty")
                 /\ NotStoredNotSent
                 /\ UNCHANGED <<pc, closeCode, group, chat, rateCache>>
            ELSE IF Strip(m).len > MaxContent
            THEN /\ OnlyError(c, "Message too long (max 2000 characters)")
                 /\ NotStoredNotSent
                 /\ UNCHANGED <<pc, closeCode, group, chat, rateCache>>
            ELSE /\ out' = NoOut
                 /\ pc'[c] = "rl_set"
                 /\ chat'[c].content = m.body]_vars

\* A text of 2000 characters was stored, and the text of 2001 characters that
\* the same connection sent next has just been refused.
C15_Witness ==
    \E c \in Conns :
        /\ out[c] = <<ErrorFrame("Message too long (max 2000 characters)")>>
        /\ pc[c] = "active"
        /\ recvd[c] >= 2
        /\ \E i \in DOMAIN messages : messages[i].content = "Long"

\* C16: when the membership re-check of a chat message finds that the user of
\* the connection is no longer a member, the client gets an error event and
\* the connection is closed with 4003; the message is not stored and not sent
\* to the group. No other step of the handling of a chat message closes the
\* connection: every other error leaves it Active.
C16_NonMemberClosed ==
    /\ [][\A c \in Conns :
            (pc[c] = "is_member" /\ pc'[c] # "is_member" /\ ~is_user_member(c))
                => /\ OnlyError(c, "You are not a member of this lobby")
                   /\ closeCode'[c] = 4003
                   /\ pc'[c] = "closing"
                   /\ chat'[c] = NoMessage
                   /\ NotStoredNotSent]_vars
    /\ [][\A c \in Conns :
            (closeCode'[c] # closeCode[c] \/ (pc[c] \notin TornDown /\ pc'[c] \in TornDown))
                => (pc[c] = "is_member" /\ ~is_user_member(c))]_vars
    /\ [](\A c \in Conns : pc[c] \in TornDown => chat[c] = NoMessage)

\* User 2 was kicked, then sent a chat message over a connection: the
\* connection got the error and is closed with 4003, and no row was added.
C16_Witness ==
    \E c \in Conns :
        /\ memberships[user[c]] = None
        /\ closeCode[c] = 4003
        /\ pc[c] = "closing"
        /\ out[c] = <<ErrorFrame("You are not a member of this lobby")>>
        /\ Len(messages) = RateLimit - 1

\* C17: when check_rate_limit refuses a chat message, the client gets only
\* the 'Rate limit exceeded' error event: no row is stored, no event goes to
\* the group, the connection stays Active, the cache is not written, and the
\* consumer keeps nothing of the message (nothing is left to retry).
C17_RateLimitedDropped ==
    [][\A c \in Conns :
        (pc[c] = "rl_set" /\ pc'[c] # "rl_set" /\ last' = [c |-> c, t |-> rl[c].t, ok |-> FALSE])
            => /\ OnlyError(c, "Rate limit exceeded. Please slow down.")
               /\ NotStoredNotSent
               /\ UNCHANGED <<closeCode, group, rateCache>>
               /\ pc'[c] = "active"
               /\ chat'[c] = NoMessage
               /\ rl'[c] = NoLocals]_vars

\* The fourth message of user 2 within the second has just been refused.
C17_Witness ==
    \E c \in Conns :
        /\ out[c] = <<ErrorFrame("Rate limit exceeded. Please slow down.")>>
        /\ last = [c |-> c, t |-> now, ok |-> FALSE]
        /\ Len(CacheGetRate(RateKey(c))) = RateLimit
        /\ pc[c] = "active"

\* C18: when the store refuses the row of a chat message, the client gets the
\* 'Failed to save message' error event, the consumer drops the message (no
\* row, no event to the group, nothing kept to retry) and stays Active; and
\* every chat_message event in a channel carries the id of a stored row.
C18_SaveFailureDropped ==
    /\ [][\A c \in Conns :
            SaveMessage(c, FALSE)
                => /\ OnlyError(c, "Failed to save message")
                   /\ NotStoredNotSent
                   /\ UNCHANGED <<closeCode, group>>
                   /\ pc'[c] = "active"
                   /\ chat'[c] = NoMessage]_vars
    /\ [](\A d \in Conns : \A i \in DOMAIN inbox[d] :
            inbox[d][i].type = "chat_message"
                => \E j \in DOMAIN messages : messages[j].id = inbox[d][i].mid)

\* The store has just refused a message that passed every check.
C18_Witness ==
    \E c \in Conns :
        /\ out[c] = <<ErrorFrame("Failed to save message")>>
        /\ pc[c] = "active"
        /\ recvd[c] >= 1
        /\ memberships[user[c]] # None


\* ------------------------------------------------------ typing indicators
TypingTypes == {"typing_start", "typing_stop"}

\* C19: a typing_start or typing_stop frame goes to the channel of every
\* consumer of the lobby's group at once, whatever the rate window and the
\* membership of the sender are, and the step reads and writes nothing of the
\* rate limiter and closes nothing; the handler of the event sends it to the
\* client unless the event is of the connection's own user, so that no
\* connection of the originating user ever gets it.
C19_TypingNotEchoed ==
    /\ [][\A c \in Conns :
            (handle_typing_start(c) \/ handle_typing_stop(c))
                => /\ UNCHANGED <<rateVars, pc, closeCode, messages, group>>
                   /\ out' = NoOut
                   /\ \A d \in group :
                        lobby_id[d] = lobby_id[c]
                            => /\ Len(inbox'[d]) = Len(inbox[d]) + 1
                               /\ inbox'[d][Len(inbox'[d])].type \in TypingTypes
                               /\ inbox'[d][Len(inbox'[d])].uid = user[c]]_vars
    /\ [][\A d \in Conns :
            (/\ pc[d] = "active"
             /\ inbox[d] # <<>>
             /\ Head(inbox[d]).type \in TypingTypes
             /\ inbox'[d] = Tail(inbox[d]))
                => IF Head(inbox[d]).uid = user[d]
                   THEN out' = NoOut
                   ELSE out' = [e \in Conns |-> IF e = d THEN <<Head(inbox[d])>> ELSE <<>>]]_vars
    /\ [](\A d \in Conns : \A i \in DOMAIN out[d] :
            out[d][i].type \in TypingTypes => out[d][i].uid # user[d])

\* A typing event of user 2, sent after the user filled the rate window and
\* was kicked, has just been relayed to a connection of another user, and the
\* connection it came from has handled its own copy.
C19_Witness ==
    \E c, d \in Conns :
        /\ user[c] # user[d]
        /\ Len(out[d]) = 1
        /\ out[d][1].type \in TypingTypes
        /\ out[d][1].uid = user[c]
        /\ out[d][1].src = c
        /\ memberships[user[c]] = None
        /\ Len(CacheGetRate(RateKey(c))) = RateLimit
        /\ pc[c] = "active"
        /\ inbox[c] = <<>>

\* ------------------------------------------------------- concurrent joins
\* The requests that inserted a membership row, and those answered
Created == {r \in Reqs : jreq[r].created}
Answered == {r \in Reqs : jreq[r].pc = "done"}
Succeeded == {r \in Answered : jreq[r].resp = "Joined lobby successfully"}

\* The membership rows of (user 2, lobby): the one present before the
\* requests, if any, and those the requests inserted
RowsBefore == IF memberships[2] # None /\ Created = {} THEN 1 ELSE 0
Rows == RowsBefore + Cardinality(Created)

\* The members before the requests, and whether can_join admitted user 2 then
CountBefore == current_participants_count - Cardinality(Created)
AdmissibleBefore ==
    /\ status = "open"
    /\ CountBefore < max_participants
    /\ 2 \notin bans
    /\ RowsBefore = 0

\* C20 as stated: once every request of user 2 is answered, there is at most
\* one membership row, and, the user having been admissible, exactly one
\* request succeeded and every other one was answered 'Already in lobby'.
C20_LoserSeesAlreadyMember ==
    Answered = Reqs =>
        /\ Rows <= 1
        /\ AdmissibleBefore =>
            /\ Cardinality(Succeeded) = 1
            /\ \A r \in Reqs \ Succeeded : jreq[r].resp = "Already in lobby"

\* C20, amended: at any time there is at most one membership row for user 2
\* and at most one request inserted it; once every request is answered, if
\* the user was admissible exactly one request succeeded and every other one
\* was refused, with 'Already in lobby' or, only when the successful join took
\* the last place of the lobby, with 'Lobby is full'; if the user was not
\* admissible no request succeeded.
C20_OneJoinWins ==
    /\ Rows <= 1
    /\ Cardinality(Succeeded) <= 1
    /\ Answered = Reqs =>
        IF AdmissibleBefore
        THEN /\ Cardinality(Succeeded) = 1
             /\ Cardinality(Created) = 1
             /\ \A r \in Reqs \ Succeeded :
                    \/ jreq[r].resp = "Already in lobby"
                    \/ /\ jreq[r].resp = "Lobby is full"
                       /\ CountBefore + 1 = max_participants
        ELSE Succeeded = {} /\ Created = {}

\* Two requests of user 2, admissible before them, are answered: one
\* succeeded, and the other, which passed can_join before the row was
\* inserted, got 'Already in lobby' from get_or_create.
C20_Witness ==
    /\ Answered = Reqs
    /\ AdmissibleBefore
    /\ CountBefore + 1 < max_participants
    /\ Cardinality(Succeeded) = 1
    /\ \E r \in Reqs \ Succeeded : jreq[r].resp = "Already in lobby"

\* ------------------------------------------------------------- REST join
\* Request r takes a step.
Steps(r) == jreq'[r] # jreq[r]

\* C21: a join request that can_join denies is answered with the reason of
\* the denial and changes no membership, no ban and no row of the audit log;
\* a join request of a user whom can_join admits (when the row is created)
\* creates the one membership (user, lobby), with role 'member', changes no
\* other membership and no ban, and is answered with success after one row of
\* the audit log.
C21_JoinCreatesOneMember ==
    /\ [][\A r \in Reqs :
            (Steps(r) /\ jreq[r].pc = "idle")
                => IF can_join(status, jreq'[r].user).allowed
                   THEN jreq'[r].pc = "create" /\ UNCHANGED dbVars
                   ELSE /\ jreq'[r].pc = "done"
                        /\ jreq'[r].resp = can_join(status, jreq'[r].user).reason
                        /\ jreq'[r].resp # "Joined lobby successfully"
                        /\ UNCHANGED dbVars]_vars
    /\ [][\A r \in Reqs :
            (Steps(r) /\ jreq[r].pc = "create" /\ can_join(status, jreq[r].user).allowed)
                => /\ memberships' = [memberships EXCEPT ![jreq[r].user] = "member"]
                   /\ jreq'[r].created
                   /\ UNCHANGED <<bans, events, status, owner>>]_vars
    /\ [][\A r \in Reqs :
            (Steps(r) /\ jreq[r].pc = "respond" /\ jreq[r].created)
                => /\ jreq'[r].resp = "Joined lobby successfully"
                   /\ Len(events') = Len(events) + 1
                   /\ events'[Len(events')].actor = jreq[r].user
                   /\ UNCHANGED <<memberships, bans>>]_vars

\* A request of user 2 has created the membership and been answered, while
\* another request was refused.
C21_Witness ==
    \E r, q \in Reqs :
        /\ jreq[r].pc = "done" /\ jreq[r].resp = "Joined lobby successfully"
        /\ memberships[2] = "member"
        /\ Len(events) = 1
        /\ jreq[q].pc = "done" /\ jreq[q].resp # "Joined lobby successfully"

\* ------------------------------------------------------------- REST kick
\* C22: a kick that succeeds (the target is a member and not the owner)
\* deletes the membership of the target and nothing else: no other
\* membership changes and no ban is created or removed; a kick of a user who
\* is not a member is answered with an error and changes no row.
C22_KickDeletesOnlyTarget ==
    [][\A t \in Users :
        kick(owner, t)
            => IF KickResponse(t).status = 200
               THEN /\ memberships[t] \in {"member", "moderator"}
                    /\ memberships'[t] = None
                    /\ \A u \in Users \ {t} : memberships'[u] = memberships[u]
                    /\ bans' = bans
               ELSE /\ memberships[t] = None => KickResponse(t).text = "User not in lobby"
                    /\ UNCHANGED dbVars]_vars

\* User 2 has been kicked: the row of the kick is the last of the audit log,
\* user 2 is no member and not banned, user 3 still is a member.
C22_Witness ==
    /\ events # <<>>
    /\ events[Len(events)].event_type = "kick"
    /\ events[Len(events)].target = 2
    /\ memberships[2] = None
    /\ memberships[3] = "member"
    /\ bans = {}
    /\ nreqs = MaxMods

\* ------------------------------------------------------- lobby creation
\* The create requests answered with the lobby
CreatedLobby == {r \in Reqs : jreq[r].pc = "done" /\ jreq[r].resp = "Lobby created"}

\* Ownership of the lobby has been transferred
Transferred == \E i \in DOMAIN events : events[i].event_type = "transfer"

C24_SnapshotHasSelf ==
    \A c \in Conns : \A i \in DOMAIN out[c] :
        out[c][i].type = "presence_list" => user[c] \in out[c][i].users

Orphan(c) ==
    /\ crashed[c] >= 0
    /\ \A d \in Conns \ {c} : user[d] # user[c]

C26_CrashedUserExpires ==
    \A c \in Conns :
        (Orphan(c) /\ now > crashed[c] + PresenceTTL)
            => user[c] \notin CacheGetPresence(lobby_id[c])

\* C27: every check_rate_limit call gets the same answer from the store
\* whose keys expire 10 seconds after their last write as from a store that
\* never expires a key.
Answer(msgs, cur) == ~RateExceeded(RateFilter(msgs, cur))

C27_TTLDoesNotChangeAnswers ==
    \A c \in Conns :
        pc[c] = "rl_set" => Answer(rl[c].msgs, rl[c].t) = Answer(rl[c].kept, rl[c].t)

\* a call that found its key evicted while the other store still holds entries
C27_Witness ==
    \E c \in Conns :
        /\ pc[c] = "rl_set"
        /\ rl[c].msgs = <<>>
        /\ rl[c].kept # <<>>
        /\ rateCache[RateKey(c)].ts # <<>>

\* C28: a check_rate_limit call for key (U, L) leaves the stored entry of
\* every other key as it was, at its read and at its answer, and a call that
\* is rejected leaves every stored entry as it was, the one of (U, L) included.
C28_CallTouchesOwnKeyOnly ==
    [][\A c \in Conns :
          /\ (pc[c] = "active" /\ pc'[c] = "rl_set") => rateCache' = rateCache
          /\ (pc[c] = "rl_set" /\ pc'[c] = "active")
                => /\ \A k \in Keys \ {RateKey(c)} : rateCache'[k] = rateCache[k]
                   /\ last'.ok = FALSE => rateCache' = rateCache]_vars

\* a call was just rejected while the same user has a window in another lobby
C28_Witness ==
    \E c \in Conns, k \in Keys :
        /\ last = [c |-> c, t |-> now, ok |-> FALSE]
        /\ k[1] = user[c] /\ k[2] # lobby_id[c]
        /\ CacheGetRate(k) # <<>>
        /\ Len(CacheGetRate(RateKey(c))) = RateLimit

\* C29: the cache never holds a presence key with an empty set: a
\* remove_user_presence that leaves the set it read empty deletes the key, and
\* one whose user is not in the set it read stores that set as it read it (no
\* key if it read none).
C29_NoEmptyPresenceKey ==
    /\ [](\A l \in Lobbies : presence[l].users = {} => presence[l] = NoPresence)
    /\ [][\A c \in Conns :
            (pc[c] = "rm_set" /\ pc'[c] = "discard")
                => /\ ploc[c] \ {user[c]} = {} => presence'[lobby_id[c]] = NoPresence
                   /\ user[c] \notin ploc[c] => presence'[lobby_id[c]].users = ploc[c]
                   /\ \A l \in Lobbies \ {lobby_id[c]} : presence'[l] = presence[l]]_vars

\* a remove_user_presence has read a set that does not hold its user, the key
\* of the lobby having been deleted by an earlier removal or holding others
C29_Witness ==
    \E c, d \in Conns :
        /\ pc[c] = "rm_set"
        /\ user[c] \notin ploc[c]
        /\ ploc[c] # {}
        /\ pc[d] \in {"discard", "closed"}
        /\ presence[TheLobby] = NoPresence

\* C30: a frame that is not JSON, or is JSON but no object, or is an object
\* whose type is missing or unknown, gets its client exactly one error event
\* and nothing else: no other client gets a frame, the connection stays as it
\* was, no event goes to the group, and the presence set, the rate windows
\* and the rows of the database stay as they were.
C30_MalformedFrameOnlyError ==
    [][\A c \in Conns, f \in BadFrames :
        receive(c, f) =>
            /\ \/ OnlyError(c, "Invalid JSON") /\ ~f.json
               \/ OnlyError(c, NoGet) /\ f.json /\ ~f.object
               \/ OnlyError(c, "Unknown message type") /\ f.json /\ f.object
            /\ UNCHANGED <<pc, closeCode, chat, group, inbox, bcast>>
            /\ UNCHANGED <<presence, rateCache, dbVars>>]_vars

\* a connection that has sent chat messages before got the error for a frame
\* that is JSON but no object, and is still Active
C30_Witness ==
    \E c \in Conns :
        /\ out[c] = <<ErrorFrame(NoGet)>>
        /\ pc[c] = "active"
        /\ recvd[c] >= 2
        /\ Len(messages) >= RateLimit

\* C31: a chat message passes its checks in the order empty, too long, rate
\* limit, membership, store, each begun only when the one before it passed; a
\* message refused as empty or too long leaves the rate window and the count
\* of its calls as they were, and a message the rate limiter refuses while its
\* sender is no longer a member gets only the rate limit error and leaves the
\* connection Active and unclosed.
C31_ChecksInOrder ==
    [][\A c \in Conns :
        /\ (pc[c] # "rl_set" /\ pc'[c] = "rl_set")
              => \E m \in SendContents :
                    /\ handle_chat_message(c, m)
                    /\ Strip(m).len \in 1..MaxContent
        /\ (pc[c] # "is_member" /\ pc'[c] = "is_member")
              => pc[c] = "rl_set" /\ last' = [c |-> c, t |-> rl[c].t, ok |-> TRUE]
        /\ (pc[c] # "save" /\ pc'[c] = "save")
              => pc[c] = "is_member" /\ is_user_member(c)
        /\ (pc[c] # "broadcast" /\ pc'[c] = "broadcast")
              => pc[c] = "save" /\ Len(messages') = Len(messages) + 1
        /\ (pc[c] = "active" /\ pc'[c] = "active" /\ recvd'[c] # recvd[c])
              => UNCHANGED <<rateCache, nsends, accepted, rl>>
        /\ (pc[c] = "rl_set" /\ pc'[c] # "rl_set" /\ ~last'.ok /\ ~is_user_member(c))
              => /\ OnlyError(c, "Rate limit exceeded. Please slow down.")
                 /\ pc'[c] = "active"
                 /\ closeCode'[c] = 0]_vars

\* User 2 was kicked and its next message was refused by the rate limiter: the
\* connection got that error only and is still Active.
C31_Witness ==
    \E c \in Conns :
        /\ memberships[user[c]] = None
        /\ out[c] = <<ErrorFrame("Rate limit exceeded. Please slow down.")>>
        /\ last = [c |-> c, t |-> now, ok |-> FALSE]
        /\ pc[c] = "active"
        /\ closeCode[c] = 0

\* C32: the timestamps a check_rate_limit call counts are those it read whose
\* age is at most 2 seconds: only the strictly older ones are discarded, and
\* one that is exactly 2 seconds old still counts.
C32_AgeTwoRetained ==
    \A c \in Conns :
        pc[c] = "rl_set"
            => RateFilter(rl[c].msgs, rl[c].t)
                 = SelectSeq(rl[c].msgs, LAMBDA t : rl[c].t - t <= RateWindow)

\* C33: every chat_message event held for or passed on by a connection names
\* a Message row with its sender and text; the group_send of a chat_message
\* is made only for a row stored in an earlier step, by the connection whose
\* send passed the rate limiter and then the membership check; each send is
\* sent to the group once and passed on by a connection once.
IsStored(ev) ==
    /\ ev.mid \in 1..Len(messages)
    /\ messages[ev.mid].sender = ev.uid
    /\ messages[ev.mid].content = ev.text

ChatEvents(q) == {i \in DOMAIN q : q[i].type = "chat_message"}

C33_BroadcastOnlyPersisted ==
    /\ [](\A c \in Conns :
            /\ \A i \in ChatEvents(inbox[c]) : IsStored(inbox[c][i])
            /\ \A i \in ChatEvents(out[c]) : IsStored(out[c][i])
            /\ \A i, j \in ChatEvents(inbox[c]) : inbox[c][i].mid = inbox[c][j].mid => i = j)
    /\ [][\A d \in Conns :
            (Len(inbox'[d]) > Len(inbox[d]) /\ inbox'[d][Len(inbox'[d])].type = "chat_message")
                => \E c \in Conns :
                      /\ pc[c] = "broadcast" /\ pc'[c] = "active"
                      /\ chat[c].id \in 1..Len(messages)
                      /\ chat'[c] = NoMessage
                      /\ inbox'[d][Len(inbox'[d])]
                           = Event("chat_message", user[c], {}, messages[chat[c].id].content,
                                   chat[c].id, c, chat[c].n)
                      /\ Len(inbox'[d]) = Len(inbox[d]) + 1]_vars
    /\ [][\A c \in Conns :
            /\ (pc[c] # "broadcast" /\ pc'[c] = "broadcast")
                  => /\ pc[c] = "save"
                     /\ chat'[c].id = Len(messages')
                     /\ Len(messages') = Len(messages) + 1
            /\ (pc[c] # "save" /\ pc'[c] = "save") => (pc[c] = "is_member" /\ is_user_member(c))
            /\ (pc[c] # "is_member" /\ pc'[c] = "is_member")
                  => (pc[c] = "rl_set" /\ ~RateExceeded(RateFilter(rl[c].msgs, rl[c].t)))
            /\ \A i \in ChatEvents(out'[c]) : out'[c][i].n > seen[c][out'[c][i].src]]_vars

\* A connection has just passed on the chat_message of a row stored by this run.
C33_Witness ==
    \E r \in Conns :
        /\ Len(out[r]) = 1
        /\ out[r][1].type = "chat_message"
        /\ out[r][1].mid = Len(messages)
        /\ Len(messages) = RateLimit
        /\ user[r] # out[r][1].uid

\* C34: whatever the interleaving of join, leave, kick and ban requests, the
\* lobby never has more Membership rows than its max_participants.
C34_NeverOverfilled ==
    Cardinality({u \in Users : memberships[u] # None}) <= max_participants

\* C35: whatever the interleaving of join, ban, unban, kick and leave
\* requests, no user has a LobbyBan row and a LobbyMembership row of the lobby
\* at the same time.
C35_NoBannedMember ==
    \A u \in Users : ~(u \in bans /\ memberships[u] # None)

\* C36: after any join, leave, kick, ban, unban, add_moderator,
\* remove_moderator and transfer_ownership requests, the user named by
\* lobby.owner holds the one Membership row of the lobby whose role is owner.
C36_OneOwnerRow ==
    /\ memberships[owner] = "owner"
    /\ \A u \in Users \ {owner} : memberships[u] # "owner"

\* C37: a kick, ban, unban, add_moderator or remove_moderator request changes
\* a membership, a role or a ban only when its actor is the lobby's owner or
\* holds a membership with role moderator or owner; a start, close or
\* transfer_ownership request changes the lobby only when its actor is the
\* lobby's owner.
C37_OnlyAuthorizedActors ==
    [][\A a, t \in Users :
        /\ ((kick(a, t) \/ ban(a, t) \/ unban(a, t) \/ add_moderator(a, t)
                \/ remove_moderator(a, t))
              /\ <<memberships, bans>>' # <<memberships, bans>>)
             => IsOwnerOrModerator(a)
        /\ ((start(a) \/ close(a) \/ transfer_ownership(a, t))
              /\ <<status, owner, memberships>>' # <<status, owner, memberships>>)
             => IsLobbyOwner(a)]_vars

\* C38: the rows of the audit log are never changed or removed; a join,
\* leave, kick, ban, unban, add_moderator, remove_moderator,
\* transfer_ownership, start or close request that is answered with success
\* appends one LobbyEvent of its type with its actor and target, and one that
\* is answered with an error appends none.
Logged(type, a, t) ==
    /\ Len(events') = Len(events) + 1
    /\ SubSeq(events', 1, Len(events)) = events
    /\ events'[Len(events')].event_type = type
    /\ events'[Len(events')].actor = a
    /\ events'[Len(events')].target = t

LogsIff(success, type, a, t) == IF success THEN Logged(type, a, t) ELSE events' = events

C40_ClosedIsAbsorbing ==
    [][/\ status = "closed" => status' = "closed"
       /\ (status' = "in_game" /\ status # "in_game") => status = "open"]_vars

\* C39: the number of users in the presence set of the lobby never exceeds the
\* lobby's max_participants.
C39_PresenceWithinCapacity ==
    Cardinality(CacheGetPresence(TheLobby)) <= max_participants

====
